---------------------------- MODULE Spec2Model ----------------------------
(***************************************************************************)
(* Model of the xeus-lean session bridge.                                  *)
(*                                                                         *)
(*   Spec       one LeanRepl session (src/src/lean_repl.cpp): execute      *)
(*   SpecCodec  LeanRepl::execute as a function of the engine's response   *)
(*   SpecLife   the two interpreters that own a session: the in-process    *)
(*              one (src/src/xinterpreter.cpp) and the WASM one            *)
(*              (src/src/xinterpreter_wasm.cpp)                            *)
(*   SpecCtor   LeanRepl::LeanRepl run by several threads of one process   *)
(*   SpecScan   LeanRepl::is_complete as a function of its text            *)
(*   SpecIdent  LeanRepl::extract_identifier as a function of text, cursor *)
(*   SpecInspect  inspect, complete and is_complete requests on a session  *)
(*   SpecRefs   the reference count of the native handle of one session    *)
(*   SpecWork   the worker-thread interpreter (src/src/xeus_ffi.cpp): the  *)
(*              kernel thread enqueues requests, the Lean thread polls     *)
(*              them and sends results                                     *)
(*   SpecWorkFair  SpecWork with weak fairness of the steps the threads    *)
(*              take by themselves                                         *)
(*   SpecSends  the worker-thread interpreter when the Lean thread calls   *)
(*              send_result and send_error at any time                     *)
(***************************************************************************)
EXTENDS Integers, Sequences, FiniteSets, TLC

(***************************************************************************)
(* Bounds of the model.                                                    *)
(***************************************************************************)
\* environment ids the engine hands out are 0..MaxEnv
MaxEnv == 1
\* longest "messages" / "sorries" array of a response in SpecCodec
MaxItems == 2
\* native handles one interpreter may create in SpecLife
MaxHandles == 2
\* threads constructing a LeanRepl in SpecCtor
NumThreads == 2
\* runs of the runtime bootstrap that SpecLife follows
MaxBoot == 2
\* shutdown requests that SpecLife follows
MaxShutdowns == 2
\* execute requests the kernel thread hands to the worker-thread interpreter
MaxRequests == 2
\* longest text given to is_complete in SpecScan
MaxScanLen == 4
\* longest text given to extract_identifier in SpecIdent
MaxIdentLen == 3
\* engine calls that SpecRefs follows on one session
MaxCalls == 3
\* send_result / send_error calls that SpecSends follows
MaxSends == 3

EnvIds == 0..MaxEnv
Codes == {"#eval 1 + 1", "def x := 1"}

(***************************************************************************)
(* std::optional<int>                                                      *)
(***************************************************************************)
nullopt == [has |-> FALSE, val |-> 0]
Some(n) == [has |-> TRUE, val |-> n]
OptEnv == {nullopt} \cup {Some(n) : n \in EnvIds}

(***************************************************************************)
(* JSON documents as the handlers read them.  A field is absent, has the   *)
(* type the handler converts it to, or has another type ("other").         *)
(***************************************************************************)
JAbsent == [t |-> "absent", v |-> ""]
JStr(s) == [t |-> "string", v |-> s]
JOtherS == [t |-> "other", v |-> ""]

JNoEnv == [t |-> "absent", v |-> 0]
JInt(n) == [t |-> "number", v |-> n]
JOtherN == [t |-> "other", v |-> 0]

JNoArr == [t |-> "absent", v |-> <<>>]
JArr(s) == [t |-> "array", v |-> s]
JOtherA == [t |-> "other", v |-> <<>>]

\* json(): the null document of a result built in the catch block
JNull == [null |-> TRUE, error |-> JAbsent, env |-> JNoEnv,
          messages |-> JNoArr, sorries |-> JNoArr]
JDoc(e, n, m, s) == [null |-> FALSE, error |-> e, env |-> n, messages |-> m, sorries |-> s]

contains(f) == f.t # "absent"
is_array(f) == f.t = "array"

\* sequences over S of length 0..n
RECURSIVE SeqUpTo(_, _)
SeqUpTo(S, n) ==
    IF n = 0 THEN {<<>>}
    ELSE LET shorter == SeqUpTo(S, n - 1)
         IN  shorter \cup {Append(s, x) : s \in {q \in shorter : Len(q) = n - 1}, x \in S}

(***************************************************************************)
(* The engine call: lean_repl_execute_cmd fails, or returns text that is   *)
(* not JSON, or returns a document.                                        *)
(***************************************************************************)
CallFailed == [kind |-> "io_error", doc |-> JNull]
NotJson == [kind |-> "not_json", doc |-> JNull]
Document(d) == [kind |-> "json", doc |-> d]

\* C++ exception classes; the ones derived from std::exception
StdExceptions == {"std::runtime_error", "json::type_error", "json::parse_error"}
NoThrow == [thrown |-> FALSE, exc |-> "", what |-> ""]
Throw(e, w) == [thrown |-> TRUE, exc |-> e, what |-> w]

\* json::parse inside send_command: a parse_error is caught there and
\* rethrown as std::runtime_error
send_command(outcome) ==
    CASE outcome.kind = "io_error" ->
            [ex |-> Throw("std::runtime_error", "Lean REPL execution failed"), doc |-> JNull]
      [] outcome.kind = "not_json" ->
            [ex |-> Throw("std::runtime_error", "Failed to parse JSON response from Lean REPL"),
             doc |-> JNull]
      [] OTHER -> [ex |-> NoThrow, doc |-> outcome.doc]

\* mutant: the session's environment takes precedence over the override
ChooseEnv_CurrentFirst(env_id, cur) ==
    IF cur.has THEN cur ELSE IF env_id.has THEN env_id ELSE nullopt

\* the command document built by execute: cmd["cmd"], cmd["env"]
ChooseEnv(env_id, cur) ==
    IF env_id.has THEN env_id ELSE IF cur.has THEN cur ELSE nullopt

BuildCmd(code, env_id, cur) == [cmd |-> code, env |-> ChooseEnv(env_id, cur)]

\* one loop of execute over an array: each entry that has the field must
\* hold a string (get<std::string>() throws json::type_error otherwise)
AnyBad(items) == \E i \in 1..Len(items) : items[i].t = "other"

RECURSIVE FormatItems(_, _)
FormatItems(items, prefix) ==
    IF items = <<>> THEN ""
    ELSE (IF Head(items).t = "string" THEN prefix \o Head(items).v \o "\n" ELSE "")
         \o FormatItems(Tail(items), prefix)

\* mutant: the sorries are written before the messages
FormatOutput_SorriesFirst(doc) ==
    (IF contains(doc.sorries) /\ is_array(doc.sorries)
        THEN FormatItems(doc.sorries.v, "Goal: ") ELSE "")
    \o
    (IF contains(doc.messages) /\ is_array(doc.messages)
        THEN FormatItems(doc.messages.v, "") ELSE "")

FormatOutput(doc) ==
    (IF contains(doc.messages) /\ is_array(doc.messages)
        THEN FormatItems(doc.messages.v, "") ELSE "")
    \o
    (IF contains(doc.sorries) /\ is_array(doc.sorries)
        THEN FormatItems(doc.sorries.v, "Goal: ") ELSE "")

Err(msg, response) ==
    [ok |-> FALSE, output |-> "", error |-> msg, response |-> response, env |-> nullopt]
Ok(out, response, new_env) ==
    [ok |-> TRUE, output |-> out, error |-> "", response |-> response, env |-> new_env]

\* mutant: the catch clause names std::runtime_error only
ExecuteCatches_RuntimeOnly(exc) == exc = "std::runtime_error"

\* the catch clause of execute: catch (const std::exception& e)
ExecuteCatches(exc) == exc \in StdExceptions

\* mutant: the response's env is never stored
EnvAfterRead_Kept(doc, cur) == cur

\* the point at which execute stores the response's env in m_current_env:
\* right after reading it, before the messages and sorries are formatted
EnvAfterRead(doc, cur) == IF doc.env.t = "number" THEN Some(doc.env.v) ELSE cur

\* the try block of LeanRepl::execute after send_command returned doc:
\* [ex: what was thrown, res: the result returned, cur: m_current_env after]
ExecuteTry(doc, cur) ==
    IF contains(doc.error)
    THEN IF doc.error.t = "string"
         THEN [ex |-> NoThrow, res |-> Err(doc.error.v, doc), cur |-> cur]
         ELSE [ex |-> Throw("json::type_error", "type must be string"),
               res |-> Err("", JNull), cur |-> cur]
    ELSE IF contains(doc.env) /\ doc.env.t # "number"
    THEN [ex |-> Throw("json::type_error", "type must be number"),
          res |-> Err("", JNull), cur |-> cur]
    ELSE IF \/ (is_array(doc.messages) /\ AnyBad(doc.messages.v))
            \/ (is_array(doc.sorries) /\ AnyBad(doc.sorries.v))
    THEN [ex |-> Throw("json::type_error", "type must be string"),
          res |-> Err("", JNull), cur |-> EnvAfterRead(doc, cur)]
    ELSE [ex |-> NoThrow,
          res |-> Ok(FormatOutput(doc), doc,
                     IF contains(doc.env) THEN Some(doc.env.v) ELSE nullopt),
          cur |-> EnvAfterRead(doc, cur)]

\* LeanRepl::execute: [res: the repl_result, cur: m_current_env afterwards,
\* cmd: the command sent, escaped: an exception left execute]
execute(code, env_id, cur, outcome) ==
    LET cmd == BuildCmd(code, env_id, cur)
        sent == send_command(outcome)
        body == IF sent.ex.thrown
                THEN [ex |-> sent.ex, res |-> Err("", JNull), cur |-> cur]
                ELSE ExecuteTry(sent.doc, cur)
    IN  IF ~body.ex.thrown
        THEN [res |-> body.res, cur |-> body.cur, cmd |-> cmd, escaped |-> FALSE]
        ELSE IF ExecuteCatches(body.ex.exc)
        THEN [res |-> Err("Error communicating with Lean REPL: " \o body.ex.what, JNull),
              cur |-> body.cur, cmd |-> cmd, escaped |-> FALSE]
        ELSE [res |-> Err("", JNull), cur |-> body.cur, cmd |-> cmd, escaped |-> TRUE]


(***************************************************************************)
(* The lexical scanners of src/src/lean_repl.cpp.  A text is the sequence  *)
(* of its characters, each a one-character string; position i of the C++   *)
(* code is element i + 1 of the sequence.                                  *)
(***************************************************************************)
\* std::isspace in the "C" locale: space, \t, \n, \v (written "x0B"), \f, \r;
\* std::isalnum on the characters the model uses
isspace(c) == c \in {" ", "\t", "\n", "x0B", "\f", "\r"}
isalnum(c) ==
    c \in {"a", "b", "c", "d", "e", "f", "g", "h", "i", "j", "k", "l", "m",
           "n", "o", "p", "q", "r", "s", "t", "u", "v", "w", "x", "y", "z",
           "A", "B", "C", "D", "E", "F", "G", "H", "I", "J", "K", "L", "M",
           "N", "O", "P", "Q", "R", "S", "T", "U", "V", "W", "X", "Y", "Z",
           "0", "1", "2", "3", "4", "5", "6", "7", "8", "9"}

\* the lambda is_ident_char of extract_identifier
is_ident_char(c) == isalnum(c) \/ c = "_" \/ c = "'" \/ c = "."

\* mutant: nothing is trimmed
TrimTrailing_None(code) == code

\* while (!trimmed.empty() && std::isspace(trimmed.back())) trimmed.pop_back();
RECURSIVE TrimTrailing(_)
TrimTrailing(code) ==
    IF code # <<>> /\ isspace(code[Len(code)])
    THEN TrimTrailing(SubSeq(code, 1, Len(code) - 1))
    ELSE code

\* the locals of is_complete's scan as the loop starts
ScanStart ==
    [open_parens |-> 0, open_braces |-> 0, open_brackets |-> 0,
     in_string |-> FALSE, in_comment |-> FALSE]

\* the depth counters after character c, outside strings and comments
CountBracket(st, c) ==
    CASE c = "(" -> [st EXCEPT !.open_parens = @ + 1]
      [] c = ")" -> [st EXCEPT !.open_parens = @ - 1]
      [] c = "{" -> [st EXCEPT !.open_braces = @ + 1]
      [] c = "}" -> [st EXCEPT !.open_braces = @ - 1]
      [] c = "[" -> [st EXCEPT !.open_brackets = @ + 1]
      [] c = "]" -> [st EXCEPT !.open_brackets = @ - 1]
      [] OTHER -> st

\* one turn of the for loop of is_complete, at element i of trimmed; the
\* tests are made in the order of the code: in_string, the double quote,
\* the two dashes, in_comment, the brackets
ScanStep(trimmed, i, st) ==
    LET c == trimmed[i]
    IN  IF st.in_string
        THEN IF c = "\"" /\ (i = 1 \/ trimmed[i - 1] # "\\")
             THEN [st EXCEPT !.in_string = FALSE]
             ELSE st
        ELSE IF c = "\""
        THEN [st EXCEPT !.in_string = TRUE]
        ELSE IF i + 1 <= Len(trimmed) /\ trimmed[i] = "-" /\ trimmed[i + 1] = "-"
        THEN [st EXCEPT !.in_comment = TRUE]
        ELSE IF st.in_comment
        THEN IF c = "\n" THEN [st EXCEPT !.in_comment = FALSE] ELSE st
        ELSE CountBracket(st, c)

\* the locals before each turn of the loop, and after the last one:
\* element i is the state in which trimmed[i] is read
RECURSIVE ScanFrom(_, _, _)
ScanFrom(trimmed, i, st) ==
    IF i > Len(trimmed)
    THEN <<st>>
    ELSE <<st>> \o ScanFrom(trimmed, i + 1, ScanStep(trimmed, i, st))

ScanStates(trimmed) == ScanFrom(trimmed, 1, ScanStart)

\* mutant: any unbalanced counter counts as open
PositiveDepth_NonZero(n) == n # 0

\* open_parens > 0, open_braces > 0, open_brackets > 0
PositiveDepth(n) == n > 0

\* mutant: "by" is found only at the start of the text
find_by_AtStart(trimmed) ==
    Len(trimmed) >= 2 /\ trimmed[1] = "b" /\ trimmed[2] = "y"

\* trimmed.find("by") != std::string::npos
find_by(trimmed) ==
    \E k \in 1..(Len(trimmed) - 1) : trimmed[k] = "b" /\ trimmed[k + 1] = "y"

\* std::string LeanRepl::is_complete(code)
is_complete(code) ==
    LET trimmed == TrimTrailing(code)
        states == ScanStates(trimmed)
        end == states[Len(states)]
    IN  IF trimmed = <<>>
        THEN "incomplete"
        ELSE IF \/ PositiveDepth(end.open_parens)
                \/ PositiveDepth(end.open_braces)
                \/ PositiveDepth(end.open_brackets)
                \/ end.in_string
        THEN "incomplete"
        ELSE IF /\ find_by(trimmed)
                /\ trimmed[Len(trimmed)] # "."
                /\ trimmed[Len(trimmed)] # ")"
        THEN "incomplete"
        ELSE "complete"

\* std::max(0, std::min(cursor_pos, static_cast<int>(code_size)))
clamp(cursor_pos, code_size) ==
    LET m == IF cursor_pos < code_size THEN cursor_pos ELSE code_size
    IN  IF m > 0 THEN m ELSE 0

\* mutant: the scan to the right stops one character early
RECURSIVE ScanRight_Short(_, _)
ScanRight_Short(code, e) ==
    IF e + 1 < Len(code) /\ is_ident_char(code[e + 1]) THEN ScanRight_Short(code, e + 1) ELSE e

\* while (s > 0 && is_ident_char(code[s - 1])) --s;
RECURSIVE ScanLeft(_, _)
ScanLeft(code, s) ==
    IF s > 0 /\ is_ident_char(code[s]) THEN ScanLeft(code, s - 1) ELSE s

\* while (e < code_size && is_ident_char(code[e])) ++e;
RECURSIVE ScanRight(_, _)
ScanRight(code, e) ==
    IF e < Len(code) /\ is_ident_char(code[e + 1]) THEN ScanRight(code, e + 1) ELSE e

\* std::string LeanRepl::extract_identifier(code, cursor_pos, start, end):
\* [ident: the substring returned, start, end: the int& results]
extract_identifier(code, cursor_pos) ==
    LET cursor == clamp(cursor_pos, Len(code))
        s == ScanLeft(code, cursor)
        e == ScanRight(code, cursor)
    IN  [ident |-> SubSeq(code, s + 1, e), start |-> s, end |-> e]

\* static const std::vector<std::string> keywords of LeanRepl::complete, each
\* as the sequence of its bytes (a byte above 127 is written xHH)
keywords == <<
    <<"d", "e", "f">>,
    <<"t", "h", "e", "o", "r", "e", "m">>,
    <<"l", "e", "m", "m", "a">>,
    <<"e", "x", "a", "m", "p", "l", "e">>,
    <<"a", "x", "i", "o", "m">>,
    <<"i", "n", "d", "u", "c", "t", "i", "v", "e">>,
    <<"s", "t", "r", "u", "c", "t", "u", "r", "e">>,
    <<"c", "l", "a", "s", "s">>,
    <<"i", "n", "s", "t", "a", "n", "c", "e">>,
    <<"n", "a", "m", "e", "s", "p", "a", "c", "e">>,
    <<"s", "e", "c", "t", "i", "o", "n">>,
    <<"v", "a", "r", "i", "a", "b", "l", "e">>,
    <<"v", "a", "r", "i", "a", "b", "l", "e", "s">>,
    <<"c", "o", "n", "s", "t", "a", "n", "t">>,
    <<"i", "m", "p", "o", "r", "t">>,
    <<"o", "p", "e", "n">>,
    <<"b", "y">>,
    <<"h", "a", "v", "e">>,
    <<"s", "h", "o", "w">>,
    <<"f", "r", "o", "m">>,
    <<"l", "e", "t">>,
    <<"i", "n">>,
    <<"m", "a", "t", "c", "h">>,
    <<"w", "i", "t", "h">>,
    <<"d", "o">>,
    <<"i", "f">>,
    <<"t", "h", "e", "n">>,
    <<"e", "l", "s", "e">>,
    <<"f", "u", "n">>,
    <<"xCE", "xBB">>,
    <<"f", "o", "r", "a", "l", "l">>,
    <<"xE2", "x88", "x80">>,
    <<"e", "x", "i", "s", "t", "s">>,
    <<"xE2", "x88", "x83">>,
    <<"N", "a", "t">>,
    <<"I", "n", "t">>,
    <<"S", "t", "r", "i", "n", "g">>,
    <<"B", "o", "o", "l">>,
    <<"L", "i", "s", "t">>,
    <<"A", "r", "r", "a", "y">>,
    <<"O", "p", "t", "i", "o", "n">>,
    <<"N", "a", "t", ".", "a", "d", "d">>,
    <<"N", "a", "t", ".", "m", "u", "l">>,
    <<"L", "i", "s", "t", ".", "m", "a", "p">>,
    <<"L", "i", "s", "t", ".", "f", "i", "l", "t", "e", "r">>,
    <<"s", "i", "m", "p">>,
    <<"r", "f", "l">>,
    <<"i", "n", "t", "r", "o">>,
    <<"a", "p", "p", "l", "y">>,
    <<"e", "x", "a", "c", "t">>,
    <<"c", "a", "s", "e", "s">>,
    <<"i", "n", "d", "u", "c", "t", "i", "o", "n">>,
    <<"r", "w">>,
    <<"r", "e", "w", "r", "i", "t", "e">>,
    <<"u", "n", "f", "o", "l", "d">>,
    <<"s", "p", "l", "i", "t">>,
    <<"c", "o", "n", "t", "r", "a", "d", "i", "c", "t", "i", "o", "n">>
>>

\* mutant: only the keyword that equals the prefix matches
starts_with_Equal(kw, prefix) == kw = prefix

\* kw.rfind(prefix, 0) == 0: kw starts with prefix
starts_with(kw, prefix) ==
    /\ Len(prefix) <= Len(kw)
    /\ \A k \in 1..Len(prefix) : kw[k] = prefix[k]

\* the loop of complete over the first n keywords: the matches, in order
RECURSIVE MatchesUpTo(_, _)
MatchesUpTo(prefix, n) ==
    IF n = 0 THEN <<>>
    ELSE MatchesUpTo(prefix, n - 1)
         \o (IF starts_with(keywords[n], prefix) THEN <<keywords[n]>> ELSE <<>>)

\* completion_result LeanRepl::complete(code, cursor_pos)
complete(code, cursor_pos) ==
    LET r == extract_identifier(code, cursor_pos)
    IN  [matches |-> MatchesUpTo(r.ident, Len(keywords)),
         cursor_start |-> r.start, cursor_end |-> r.end]

\* a std::string built from characters
RECURSIVE Str(_)
Str(chars) == IF chars = <<>> THEN "" ELSE Head(chars) \o Str(Tail(chars))

\* mutant: inspect returns nothing for a response it can read
InspectTry_Silent(doc, ident) == [ex |-> NoThrow, info |-> ""]

\* what inspect does with the engine's response to "#check <ident>":
\* [ex: what was thrown, info: the string returned]
InspectTry(doc, ident) ==
    IF contains(doc.messages) /\ is_array(doc.messages) /\ doc.messages.v # <<>>
    THEN LET msg == doc.messages.v[1]
         IN  IF contains(msg)
             THEN IF msg.t = "string"
                  THEN [ex |-> NoThrow, info |-> msg.v]
                  ELSE [ex |-> Throw("json::type_error", "type must be string"), info |-> ""]
             ELSE [ex |-> NoThrow, info |-> "No information available for: " \o ident]
    ELSE [ex |-> NoThrow, info |-> "No information available for: " \o ident]

\* mutant: inspect stores the env of the response as execute does
InspectEnvAfter_Stored(doc, cur) == IF doc.env.t = "number" THEN Some(doc.env.v) ELSE cur

\* inspect makes no assignment to m_current_env
InspectEnvAfter(doc, cur) == cur

\* catch (const std::exception&) of inspect
InspectCatches(exc) == exc \in StdExceptions

\* mutant: no identifier counts as empty
empty_Never(ident) == FALSE

\* ident.empty()
empty(ident) == ident = ""

\* std::string LeanRepl::inspect(code, cursor_pos): [info: the string
\* returned, sent: a command went to the engine, cmd: that command,
\* cur: m_current_env afterwards, escaped: an exception left inspect]
inspect(code, cursor_pos, cur, outcome) ==
    LET ident == Str(extract_identifier(code, cursor_pos).ident)
        cmd == [cmd |-> "#check " \o ident, env |-> cur]
        sent == send_command(outcome)
        body == IF sent.ex.thrown THEN [ex |-> sent.ex, info |-> ""]
                ELSE InspectTry(sent.doc, ident)
        after == IF sent.ex.thrown THEN cur ELSE InspectEnvAfter(sent.doc, cur)
    IN  IF empty(ident)
        THEN [info |-> "", sent |-> FALSE, cmd |-> [cmd |-> "", env |-> nullopt],
              ident |-> ident, cur |-> cur, escaped |-> FALSE]
        ELSE IF ~body.ex.thrown
        THEN [info |-> body.info, sent |-> TRUE, cmd |-> cmd, ident |-> ident,
              cur |-> after, escaped |-> FALSE]
        ELSE [info |-> "", sent |-> TRUE, cmd |-> cmd, ident |-> ident, cur |-> after,
              escaped |-> ~InspectCatches(body.ex.exc)]

(***************************************************************************)
(* State.                                                                  *)
(***************************************************************************)
VARIABLES
    \* Spec: LeanRepl::m_current_env, and a record of the last execute call
    m_current_env, last, lastOkEnv,
    \* SpecCodec: the engine outcome given to execute and what execute made of it
    c_outcome, c_res,
    \* SpecLife: which interpreter is deployed and where its life cycle is
    deploy, phase,
    \* in-process interpreter: m_repl (the unique_ptr and the LeanRepl it
    \* owns) and the static flag lean_initialized of lean_repl.cpp
    m_repl, lean_initialized,
    \* WASM interpreter: m_initialized, m_current_env (an int, -1 for none)
    \* and m_repl_state (0 for nullptr)
    m_initialized, w_current_env, m_repl_state,
    \* bookkeeping: runs of the runtime bootstrap, handles created, releases
    \* of each handle, shutdown requests, how configure ended, the last request
    bootstraps, created, releases, shutdowns, configured, lreq,
    \* SpecCtor: where each thread is in LeanRepl::LeanRepl, and the m_handle
    \* its session got (0 for none)
    pc, m_handle,
    \* SpecWork, lean_interpreter: m_message_queue, m_message_mutex (who holds
    \* it), m_should_stop, m_current_callback (0 for nullptr, else the number
    \* of the request whose callback it is)
    m_message_queue, m_message_mutex, m_should_stop, m_current_callback,
    \* KernelState::kernel_thread (is it running, has it been joined) and
    \* whether the KernelState has been deleted
    kernel_thread, joined, freed,
    \* where the kernel thread and the Lean thread are
    k_pc, l_pc,
    \* bookkeeping: messages enqueued, messages polled, send calls made,
    \* callbacks invoked (in order), the last poll, the last send call, the
    \* last value should_stop returned, the shape of the history so far, and
    \* whether send_error was given a text that is not JSON
    enqueued, polled, answered, replies, lastPoll, lastSend, stop_seen, cycle, unparsed,
    \* SpecScan: the text given to is_complete and the status it returned
    ic_code, ic_status,
    \* SpecIdent: the text given to extract_identifier and the call made
    ei_code, ei_call,
    \* SpecInspect: the last inspect, complete or is_complete request
    linsp,
    \* SpecRefs: the deployment, the state of the session, the reference
    \* count of its native handle with the increments and drops made on it,
    \* and the engine calls made
    r_deploy, r_phase, r_handle, r_calls

sessVars == <<m_current_env, last, lastOkEnv>>
codecVars == <<c_outcome, c_res>>
lifeVars == <<deploy, phase, m_repl, lean_initialized, m_initialized, w_current_env,
              m_repl_state, bootstraps, created, releases, shutdowns, configured, lreq>>
ctorVars == <<pc, m_handle>>
workVars == <<m_message_queue, m_message_mutex, m_should_stop, m_current_callback,
              kernel_thread, joined, freed, k_pc, l_pc,
              enqueued, polled, answered, replies, lastPoll, lastSend, stop_seen, cycle, unparsed>>
lexVars == <<ic_code, ic_status, ei_code, ei_call, linsp>>
refVars == <<r_deploy, r_phase, r_handle, r_calls>>
vars == <<sessVars, codecVars, lifeVars, ctorVars, workVars, lexVars, refVars>>

(***************************************************************************)
(* Spec: one LeanRepl session.                                             *)
(***************************************************************************)
\* responses the engine gives in Spec
SessionDocs ==
    {JDoc(e, n, m, JNoArr) :
        e \in {JAbsent, JStr("unknown constant")},
        n \in {JNoEnv, JOtherN} \cup {JInt(i) : i \in EnvIds},
        m \in {JNoArr, JArr(<<JStr("2")>>), JArr(<<JOtherS>>)}}

SessionOutcomes == {CallFailed, NotJson} \cup {Document(d) : d \in SessionDocs}

NoCall ==
    [called |-> FALSE, code |-> "", env_id |-> nullopt, before |-> nullopt,
     outcome |-> CallFailed, res |-> Err("", JNull),
     cmd |-> [cmd |-> "", env |-> nullopt], escaped |-> FALSE]

\* LeanRepl::LeanRepl: m_current_env(std::nullopt)
SessInit ==
    /\ m_current_env = nullopt
    /\ last = NoCall
    /\ lastOkEnv = nullopt

CodecIdle == c_outcome = CallFailed /\ c_res = NoCall

\* repl_result execute(code, env_id)
Execute(code, env_id, outcome) ==
    LET r == execute(code, env_id, m_current_env, outcome)
    IN  /\ m_current_env' = r.cur
        /\ last' = [called |-> TRUE, code |-> code, env_id |-> env_id,
                    before |-> m_current_env, outcome |-> outcome,
                    res |-> r.res, cmd |-> r.cmd, escaped |-> r.escaped]
        /\ lastOkEnv' = IF r.res.ok /\ r.res.env.has THEN r.res.env ELSE lastOkEnv
        /\ UNCHANGED <<codecVars, lifeVars, ctorVars, workVars, lexVars, refVars>>

\* the interpreter as constructed: m_repl is empty, interpreter::interpreter()
\* of the WASM build sets m_initialized(false), m_current_env(-1),
\* m_repl_state(nullptr)
NullRepl == [null |-> TRUE, m_handle |-> 0, m_current_env |-> nullopt]
NoReply == [status |-> "none", ename |-> "", evalue |-> "", traceback |-> 0]
\* outcome: what the engine answered; called: call_lean_repl was called;
\* env: its environment argument; fresh: the request created the REPL
\* state it used
NoRequest == [made |-> FALSE, afterShutdown |-> FALSE, derefNull |-> FALSE,
              forwarded |-> FALSE, escaped |-> FALSE, reply |-> NoReply,
              outcome |-> CallFailed, env |-> -1, fresh |-> FALSE, called |-> FALSE]
Handles == 1..MaxHandles

LifeConstructed ==
    /\ phase = "constructed"
    /\ m_repl = NullRepl
    /\ lean_initialized = FALSE
    /\ m_initialized = FALSE
    /\ w_current_env = -1
    /\ m_repl_state = 0
    /\ bootstraps = 0
    /\ created = 0
    /\ releases = [h \in Handles |-> 0]
    /\ shutdowns = 0
    /\ configured = "no"
    /\ lreq = NoRequest

LifeIdle == deploy = "none" /\ LifeConstructed

Threads == 1..NumThreads
CtorIdle == pc = [t \in Threads |-> "idle"] /\ m_handle = [t \in Threads |-> 0]

\* the worker-thread interpreter once xeus_kernel_init has returned: the
\* kernel thread runs, lean_interpreter() has set m_should_stop(false) and
\* m_current_callback(nullptr), the queue is empty
NoPoll == [made |-> FALSE, msg |-> <<>>, wasEmpty |-> FALSE, slept |-> 0, stopped |-> FALSE]
\* completed: a send call has invoked and cleared a callback and no execute
\* request has stored one since; afterCompleted: completed, as the call began
NoSend == [made |-> FALSE, done |-> FALSE, kind |-> "", isJson |-> FALSE,
           pending |-> 0, invoked |-> 0, slot |-> 0,
           completed |-> FALSE, afterCompleted |-> FALSE]

WorkIdle ==
    /\ m_message_queue = <<>>
    /\ m_message_mutex = "free"
    /\ m_should_stop = FALSE
    /\ m_current_callback = 0
    /\ kernel_thread = "running"
    /\ joined = FALSE
    /\ freed = FALSE
    /\ k_pc = "idle"
    /\ l_pc = "idle"
    /\ enqueued = <<>>
    /\ polled = <<>>
    /\ answered = 0
    /\ replies = <<>>
    /\ lastPoll = NoPoll
    /\ lastSend = NoSend
    /\ stop_seen = FALSE
    /\ cycle = "between"
    /\ unparsed = FALSE

\* no lexical call and no inspection request has been made
NoIdentCall == [called |-> FALSE, cursor_pos |-> 0, ident |-> <<>>, start |-> 0, end |-> 0]
NoInspect ==
    [op |-> "", code |-> <<>>, cursor_pos |-> 0, before |-> nullopt, sent |-> FALSE,
     cmd |-> [cmd |-> "", env |-> nullopt], outcome |-> CallFailed,
     ident |-> "", info |-> "", escaped |-> FALSE, found |-> FALSE,
     matches |-> <<>>, cursor_start |-> 0, cursor_end |-> 0, status |-> ""]
\* no handle: nothing has been created
NoHandle == [rc |-> 0, incs |-> 0, consumed |-> 0, drops |-> 0]
RefIdle ==
    /\ r_deploy = "none"
    /\ r_phase = "none"
    /\ r_handle = NoHandle
    /\ r_calls = <<>>

LexIdle ==
    /\ ic_code = <<>> /\ ic_status = ""
    /\ ei_code = <<>> /\ ei_call = NoIdentCall
    /\ linsp = NoInspect

Init == SessInit /\ CodecIdle /\ LifeIdle /\ CtorIdle /\ WorkIdle /\ LexIdle /\ RefIdle

Next == \E code \in Codes, env_id \in OptEnv, outcome \in SessionOutcomes :
            Execute(code, env_id, outcome)

Spec == Init /\ [][Next]_vars

(***************************************************************************)
(* SpecCodec: execute applied once to each response of a bounded set.      *)
(***************************************************************************)
MessageEntries == {JStr("2"), JStr("x : Nat"), JAbsent, JOtherS}
SorryEntries == {JStr("|- True"), JAbsent, JOtherS}

CodecDocs ==
    {JDoc(e, n, m, s) :
        e \in {JAbsent, JStr("unknown constant"), JOtherS},
        n \in {JNoEnv, JOtherN} \cup {JInt(i) : i \in EnvIds},
        m \in {JNoArr, JOtherA} \cup {JArr(q) : q \in SeqUpTo(MessageEntries, MaxItems)},
        s \in {JNoArr, JOtherA} \cup {JArr(q) : q \in SeqUpTo(SorryEntries, MaxItems)}}

CodecOutcomes == {CallFailed, NotJson} \cup {Document(d) : d \in CodecDocs}

CodecInit ==
    /\ c_outcome \in CodecOutcomes
    /\ c_res = NoCall
    /\ SessInit
    /\ LifeIdle
    /\ CtorIdle
    /\ WorkIdle
    /\ LexIdle
    /\ RefIdle

CodecExecute ==
    /\ ~c_res.called
    /\ LET r == execute("#eval 1 + 1", nullopt, nullopt, c_outcome)
       IN  c_res' = [called |-> TRUE, code |-> "#eval 1 + 1", env_id |-> nullopt,
                     before |-> nullopt, outcome |-> c_outcome,
                     res |-> r.res, cmd |-> r.cmd, escaped |-> r.escaped]
    /\ UNCHANGED <<c_outcome, sessVars, lifeVars, ctorVars, workVars, lexVars, refVars>>

CodecNext == CodecExecute

SpecCodec == CodecInit /\ [][CodecNext]_vars

(***************************************************************************)
(* SpecLife: the interpreter that owns the session, from construction to   *)
(* destruction.  xeus calls configure_impl once, then the request          *)
(* handlers; a shutdown request can be followed by further requests.       *)
(***************************************************************************)
LifeDocs ==
    {JDoc(JStr("unknown constant"), JNoEnv, JNoArr, JNoArr),
     JDoc(JAbsent, JNoEnv, JNoArr, JNoArr),
     JDoc(JAbsent, JInt(0), JArr(<<JOtherS>>), JNoArr)}
    \cup {JDoc(JAbsent, JInt(i), JArr(<<JStr("2")>>), JNoArr) : i \in EnvIds}

LifeOutcomes == {CallFailed, NotJson} \cup {Document(d) : d \in LifeDocs}

\* xeus::create_successful_reply / xeus::create_error_reply(ename, evalue,
\* trace_back), the arguments in the order the callers pass them; n is the
\* number of entries of the traceback
SuccessReply == [status |-> "ok", ename |-> "", evalue |-> "", traceback |-> 0]
ErrorReply(ename, evalue, n) ==
    [status |-> "error", ename |-> ename, evalue |-> evalue, traceback |-> n]

Request(deref, fwd, esc, reply) ==
    [NoRequest EXCEPT !.made = TRUE, !.afterShutdown = shutdowns > 0, !.derefNull = deref,
                      !.forwarded = fwd, !.escaped = esc, !.reply = reply]

(***************************************************************************)
(* The in-process interpreter, src/src/xinterpreter.cpp.                   *)
(***************************************************************************)
\* LeanRepl::~LeanRepl run by delete: if (m_handle) lean_repl_free, lean_dec
ReleasesAfterDelete(repl) ==
    IF ~repl.null /\ repl.m_handle # 0
    THEN [releases EXCEPT ![repl.m_handle] = @ + 1]
    ELSE releases

\* mutant: the LeanRepl is destroyed and the pointer to it is kept
reset_KeepsPointer(repl) == repl

\* std::unique_ptr::reset(): the pointer afterwards
reset(repl) == NullRepl

\* what a call through the empty m_repl can do: the process is killed, or the
\* call runs on whatever memory is there
NullDerefOutcomes == {"crashed", "corrupted"}

\* configure_impl: m_repl = std::make_unique<LeanRepl>(); the constructor
\* bootstraps the runtime unless lean_initialized, then calls lean_repl_init;
\* when that fails it throws and configure_impl rethrows
NativeConfigure(init_ok) ==
    /\ deploy = "native" /\ phase = "constructed"
    /\ created < MaxHandles
    /\ bootstraps' = IF lean_initialized THEN bootstraps ELSE bootstraps + 1
    /\ lean_initialized' = TRUE
    /\ IF init_ok
       THEN /\ created' = created + 1
            /\ m_repl' = [null |-> FALSE, m_handle |-> created + 1, m_current_env |-> nullopt]
            /\ phase' = "running"
            /\ configured' = "ok"
       ELSE /\ phase' = "config_failed"
            /\ configured' = "threw"
            /\ UNCHANGED <<created, m_repl>>
    /\ UNCHANGED <<deploy, m_initialized, w_current_env, m_repl_state, releases,
                   shutdowns, lreq, sessVars, codecVars, ctorVars, workVars, lexVars, refVars>>

\* execute_request_impl: auto result = m_repl->execute(code); then the reply
NativeReply(res) ==
    IF res.ok THEN SuccessReply ELSE ErrorReply(res.error, "LeanError", 1)

NativeExecuteRequest(code, outcome, ub) ==
    /\ deploy = "native" /\ phase = "running"
    /\ IF m_repl.null
       THEN /\ phase' = ub
            /\ lreq' = Request(TRUE, FALSE, FALSE, NoReply)
            /\ UNCHANGED m_repl
       ELSE LET r == execute(code, nullopt, m_repl.m_current_env, outcome)
            IN  /\ m_repl' = [m_repl EXCEPT !.m_current_env = r.cur]
                /\ lreq' = [Request(FALSE, TRUE, r.escaped,
                                    IF r.escaped THEN NoReply ELSE NativeReply(r.res))
                              EXCEPT !.outcome = outcome]
                /\ UNCHANGED phase
    /\ UNCHANGED <<deploy, lean_initialized, m_initialized, w_current_env, m_repl_state,
                   bootstraps, created, releases, shutdowns, configured,
                   sessVars, codecVars, ctorVars, workVars, lexVars, refVars>>

\* shutdown_request_impl: m_repl.reset()
NativeShutdown ==
    /\ deploy = "native" /\ phase = "running"
    /\ shutdowns < MaxShutdowns
    /\ releases' = ReleasesAfterDelete(m_repl)
    /\ m_repl' = reset(m_repl)
    /\ shutdowns' = shutdowns + 1
    /\ UNCHANGED <<deploy, phase, lean_initialized, m_initialized, w_current_env,
                   m_repl_state, bootstraps, created, configured, lreq,
                   sessVars, codecVars, ctorVars, workVars, lexVars, refVars>>

\* the interpreter is destroyed: ~unique_ptr deletes the LeanRepl it holds
NativeDestroy ==
    /\ deploy = "native" /\ phase \in {"constructed", "running", "config_failed"}
    /\ releases' = ReleasesAfterDelete(m_repl)
    /\ m_repl' = NullRepl
    /\ phase' = "destroyed"
    /\ UNCHANGED <<deploy, lean_initialized, m_initialized, w_current_env, m_repl_state,
                   bootstraps, created, shutdowns, configured, lreq,
                   sessVars, codecVars, ctorVars, workVars, lexVars, refVars>>

(***************************************************************************)
(* The WASM interpreter, src/src/xinterpreter_wasm.cpp.                    *)
(***************************************************************************)
\* the step of initialize_lean_runtime that fails, if any: a module
\* initialiser, lean_wasm_repl_init, lean_wasm_repl_create_state, or a C++
\* exception
InitFailures == {"REPL", "REPL_Main", "WasmRepl", "repl_init", "create_state", "exception"}
InitResults == InitFailures \cup {"none"}

\* bool initialize_lean_runtime(): returns at once when m_initialized;
\* otherwise runs the runtime bootstrap, and when no step fails stores the
\* new REPL state in m_repl_state and sets m_initialized
initialize_lean_runtime(failAt) ==
    IF m_initialized
    THEN [ok |-> TRUE, init |-> TRUE, state |-> m_repl_state,
          boots |-> bootstraps, made |-> created]
    ELSE IF failAt = "none"
    THEN [ok |-> TRUE, init |-> TRUE, state |-> created + 1,
          boots |-> bootstraps + 1, made |-> created + 1]
    ELSE [ok |-> FALSE, init |-> FALSE, state |-> m_repl_state,
          boots |-> bootstraps + 1, made |-> created]

\* the bootstrap and the handle count stay within the bounds of the model
InitWithinBounds(failAt) ==
    ~m_initialized =>
        (bootstraps < MaxBoot /\ (failAt = "none" => created < MaxHandles))

\* configure_impl: initialize_lean_runtime(); its result is not looked at
WasmConfigure(failAt) ==
    /\ deploy = "wasm" /\ phase = "constructed"
    /\ InitWithinBounds(failAt)
    /\ LET i == initialize_lean_runtime(failAt)
       IN  /\ m_initialized' = i.init
           /\ m_repl_state' = i.state
           /\ bootstraps' = i.boots
           /\ created' = i.made
           /\ configured' = IF i.ok THEN "ok" ELSE "returned"
    /\ phase' = "running"
    /\ UNCHANGED <<deploy, m_repl, lean_initialized, w_current_env, releases,
                   shutdowns, lreq, sessVars, codecVars, ctorVars, workVars, lexVars, refVars>>

\* {"message": "REPL not initialized"}
NotInitializedDoc == JDoc(JAbsent, JNoEnv, JNoArr, JNoArr)

\* std::string call_lean_repl(code, env): the text handed back, and whether
\* lean_wasm_repl_execute was called
call_lean_repl(state, outcome) ==
    IF state = 0
    THEN [text |-> Document(NotInitializedDoc), forwarded |-> FALSE]
    ELSE IF outcome.kind = "io_error"
    THEN [text |-> Document(JDoc(JStr("Lean REPL execution failed"), JNoEnv, JNoArr, JNoArr)),
          forwarded |-> TRUE]
    ELSE [text |-> outcome, forwarded |-> TRUE]

\* the messages loop of execute_request_impl: msg.value("severity", "info")
\* throws json::type_error on an entry that is not an object (the only entry
\* a non-array gives), msg.value("data", "") on a data that is not a string
WasmMessagesThrow(messages) ==
    \/ messages.t = "other"
    \/ (messages.t = "array" /\ AnyBad(messages.v))

\* execute_request_impl from json::parse on: only json::parse_error is
\* caught; [reply, cur: m_current_env afterwards, escaped]
WasmParseAndReply(text, cur) ==
    IF text.kind = "not_json"
    THEN [reply |-> SuccessReply, cur |-> cur, escaped |-> FALSE]
    ELSE LET doc == text.doc
         IN  IF contains(doc.error)
             THEN IF doc.error.t = "string"
                  THEN [reply |-> ErrorReply(doc.error.v, "LeanError", 0),
                        cur |-> cur, escaped |-> FALSE]
                  ELSE [reply |-> NoReply, cur |-> cur, escaped |-> TRUE]
             ELSE IF contains(doc.env) /\ doc.env.t # "number"
             THEN [reply |-> NoReply, cur |-> cur, escaped |-> TRUE]
             ELSE LET cur2 == IF contains(doc.env) THEN doc.env.v ELSE cur
                  IN  IF contains(doc.messages) /\ WasmMessagesThrow(doc.messages)
                      THEN [reply |-> NoReply, cur |-> cur2, escaped |-> TRUE]
                      ELSE [reply |-> SuccessReply, cur |-> cur2, escaped |-> FALSE]

\* execute_request_impl
WasmExecuteRequest(code, outcome, failAt) ==
    /\ deploy = "wasm" /\ phase = "running"
    /\ InitWithinBounds(failAt)
    /\ LET i == initialize_lean_runtime(failAt)
       IN  /\ m_initialized' = i.init
           /\ m_repl_state' = i.state
           /\ bootstraps' = i.boots
           /\ created' = i.made
           /\ IF ~i.ok
              THEN /\ lreq' = Request(FALSE, FALSE, FALSE,
                                ErrorReply("Failed to initialize Lean runtime", "LeanError", 0))
                   /\ UNCHANGED w_current_env
              ELSE LET c == call_lean_repl(i.state, outcome)
                       r == WasmParseAndReply(c.text, w_current_env)
                   IN  /\ w_current_env' = r.cur
                       /\ lreq' = [Request(FALSE, c.forwarded, r.escaped, r.reply)
                                     EXCEPT !.outcome = outcome, !.env = w_current_env,
                                            !.fresh = ~m_initialized, !.called = TRUE]
    /\ UNCHANGED <<deploy, phase, m_repl, lean_initialized, releases, shutdowns,
                   configured, sessVars, codecVars, ctorVars, workVars, lexVars, refVars>>

\* mutant: the pointer is kept after lean_dec
ReleasedState_Dangling(state) == state

\* m_repl_state = nullptr after lean_dec
ReleasedState(state) == 0

\* if (m_repl_state) { lean_dec(m_repl_state); m_repl_state = nullptr; }
ReleasesAfterDec(state) ==
    IF state # 0 THEN [releases EXCEPT ![state] = @ + 1] ELSE releases

\* shutdown_request_impl
WasmShutdown ==
    /\ deploy = "wasm" /\ phase = "running"
    /\ shutdowns < MaxShutdowns
    /\ releases' = ReleasesAfterDec(m_repl_state)
    /\ m_repl_state' = IF m_repl_state # 0 THEN ReleasedState(m_repl_state) ELSE m_repl_state
    /\ m_initialized' = FALSE
    /\ shutdowns' = shutdowns + 1
    /\ UNCHANGED <<deploy, phase, m_repl, lean_initialized, w_current_env, bootstraps,
                   created, configured, lreq, sessVars, codecVars, ctorVars, workVars, lexVars, refVars>>

\* interpreter::~interpreter
WasmDestroy ==
    /\ deploy = "wasm" /\ phase \in {"constructed", "running"}
    /\ releases' = ReleasesAfterDec(m_repl_state)
    /\ m_repl_state' = IF m_repl_state # 0 THEN ReleasedState(m_repl_state) ELSE m_repl_state
    /\ phase' = "destroyed"
    /\ UNCHANGED <<deploy, m_repl, lean_initialized, m_initialized, w_current_env,
                   bootstraps, created, shutdowns, configured, lreq, sessVars, codecVars, ctorVars, workVars, lexVars, refVars>>

LifeInit ==
    /\ deploy \in {"native", "wasm"}
    /\ LifeConstructed
    /\ SessInit
    /\ CodecIdle
    /\ CtorIdle
    /\ WorkIdle
    /\ LexIdle
    /\ RefIdle

LifeNext ==
    \/ \E init_ok \in BOOLEAN : NativeConfigure(init_ok)
    \/ \E code \in Codes, outcome \in LifeOutcomes, ub \in NullDerefOutcomes :
          NativeExecuteRequest(code, outcome, ub)
    \/ NativeShutdown
    \/ NativeDestroy
    \/ \E failAt \in InitResults : WasmConfigure(failAt)
    \/ \E code \in Codes, outcome \in LifeOutcomes, failAt \in InitResults :
          WasmExecuteRequest(code, outcome, failAt)
    \/ WasmShutdown
    \/ WasmDestroy

SpecLife == LifeInit /\ [][LifeNext]_vars

(***************************************************************************)
(* SpecCtor: LeanRepl::LeanRepl run by the threads of one process.  The    *)
(* static flag lean_initialized is a plain bool read and written without   *)
(* a lock, so the steps of the constructors interleave freely.             *)
(***************************************************************************)
ctorFrame == <<deploy, phase, m_repl, m_initialized, w_current_env, m_repl_state,
               releases, shutdowns, configured, lreq, sessVars, codecVars, workVars, lexVars, refVars>>

\* a thread starts constructing its LeanRepl
CtorEnter(t) ==
    /\ pc[t] = "idle"
    /\ pc' = [pc EXCEPT ![t] = "check"]
    /\ UNCHANGED <<lean_initialized, bootstraps, created, m_handle, ctorFrame>>

\* if (!lean_initialized)
CtorCheck(t) ==
    /\ pc[t] = "check"
    /\ pc' = [pc EXCEPT ![t] = IF lean_initialized THEN "repl_init" ELSE "lean_initialize"]
    /\ UNCHANGED <<lean_initialized, bootstraps, created, m_handle, ctorFrame>>

\* lean_initialize();
CtorLeanInitialize(t) ==
    /\ pc[t] = "lean_initialize"
    /\ bootstraps' = bootstraps + 1
    /\ pc' = [pc EXCEPT ![t] = "task_manager"]
    /\ UNCHANGED <<lean_initialized, created, m_handle, ctorFrame>>

\* lean_init_task_manager();
CtorInitTaskManager(t) ==
    /\ pc[t] = "task_manager"
    /\ pc' = [pc EXCEPT ![t] = "runtime_module"]
    /\ UNCHANGED <<lean_initialized, bootstraps, created, m_handle, ctorFrame>>

\* lean_initialize_runtime_module();
CtorInitRuntimeModule(t) ==
    /\ pc[t] = "runtime_module"
    /\ pc' = [pc EXCEPT ![t] = "set_flag"]
    /\ UNCHANGED <<lean_initialized, bootstraps, created, m_handle, ctorFrame>>

\* lean_initialized = true;
CtorSetFlag(t) ==
    /\ pc[t] = "set_flag"
    /\ lean_initialized' = TRUE
    /\ pc' = [pc EXCEPT ![t] = "repl_init"]
    /\ UNCHANGED <<bootstraps, created, m_handle, ctorFrame>>

\* lean_repl_init(unit): the handle is stored in m_handle, or the
\* constructor throws
CtorReplInit(t, init_ok) ==
    /\ pc[t] = "repl_init"
    /\ IF init_ok
       THEN /\ created' = created + 1
            /\ m_handle' = [m_handle EXCEPT ![t] = created + 1]
            /\ pc' = [pc EXCEPT ![t] = "done"]
       ELSE /\ pc' = [pc EXCEPT ![t] = "threw"]
            /\ UNCHANGED <<created, m_handle>>
    /\ UNCHANGED <<lean_initialized, bootstraps, ctorFrame>>

\* LeanRepl::~LeanRepl of a constructed session: if (m_handle) the handle is
\* freed; the object is gone afterwards
CtorDelete(t) ==
    /\ pc[t] = "done"
    /\ m_handle[t] # 0
    /\ pc' = [pc EXCEPT ![t] = "deleted"]
    /\ UNCHANGED <<lean_initialized, bootstraps, created, m_handle, ctorFrame>>

CtorInit ==
    /\ CtorIdle
    /\ LifeIdle
    /\ SessInit
    /\ CodecIdle
    /\ WorkIdle
    /\ LexIdle
    /\ RefIdle

CtorNext ==
    \E t \in Threads :
        \/ CtorEnter(t)
        \/ CtorCheck(t)
        \/ CtorLeanInitialize(t)
        \/ CtorInitTaskManager(t)
        \/ CtorInitRuntimeModule(t)
        \/ CtorSetFlag(t)
        \/ \E init_ok \in BOOLEAN : CtorReplInit(t, init_ok)
        \/ CtorDelete(t)

SpecCtor == CtorInit /\ [][CtorNext]_vars

(***************************************************************************)
(* SpecWork: the worker-thread deployment, src/src/xeus_ffi.cpp.  The      *)
(* kernel thread (xkernel::start) calls execute_request_impl and           *)
(* shutdown_request_impl; the Lean thread calls xeus_kernel_poll,          *)
(* xeus_kernel_send_result, xeus_kernel_send_error, xeus_kernel_should_stop *)
(* and, last, the finalizer.  A step that runs with the mutex held is one  *)
(* action per lock region that another thread can observe; send_result and *)
(* send_error take no lock, so the test-and-call and the clearing of       *)
(* m_current_callback are separate steps.  The Lean thread answers the     *)
(* messages it polled, oldest first.                                       *)
(***************************************************************************)
\* msg.dump() of the execute_request message, as the text's parts; the
\* empty string is the empty sequence
dump(code, execution_count) == <<"execute_request", code, execution_count>>

\* texts the Lean thread passes to send_result / send_error
JsonTexts == {"{\"x\":1}"}
Payloads == JsonTexts \cup {"oops"}
\* json::parse(text): does it succeed
parses(text) == text \in JsonTexts
\* json::parse(text).dump(2)
dump2(text) == IF text = "{\"x\":1}" THEN "{\n  \"x\": 1\n}" ELSE text

\* timeouts passed to xeus_kernel_poll, in milliseconds
Timeouts == {0, 100}

\* what holds of the history so far: it is a run of complete cycles of
\* execute request, poll, send_result, each step finished before the next
NextInCycle(from, to) == IF cycle = from THEN to ELSE "broken"

\* execute_request_impl up to m_message_queue.push: takes the mutex
ExecuteRequestEnqueue(code) ==
    /\ kernel_thread = "running" /\ k_pc = "idle"
    /\ m_message_mutex = "free"
    /\ Len(enqueued) < MaxRequests
    /\ LET msg == dump(code, Len(enqueued) + 1)
       IN  /\ m_message_queue' = Append(m_message_queue, msg)
           /\ enqueued' = Append(enqueued, msg)
    /\ m_message_mutex' = "kernel"
    /\ k_pc' = "exec_store"
    /\ cycle' = IF l_pc = "idle" THEN NextInCycle("between", "requesting") ELSE "broken"
    /\ UNCHANGED <<m_should_stop, m_current_callback, kernel_thread, joined, freed,
                   l_pc, polled, answered, replies, lastPoll, lastSend, stop_seen,
                   unparsed, sessVars, codecVars, lifeVars, ctorVars, lexVars, refVars>>

\* execute_request_impl: m_current_callback = cb, then the lock_guard ends
ExecuteRequestStore ==
    /\ kernel_thread = "running" /\ k_pc = "exec_store"
    /\ m_current_callback' = Len(enqueued)
    /\ m_message_mutex' = "free"
    /\ k_pc' = "idle"
    /\ cycle' = NextInCycle("requesting", "requested")
    /\ lastSend' = [lastSend EXCEPT !.completed = FALSE]
    /\ UNCHANGED <<m_message_queue, m_should_stop, kernel_thread, joined, freed,
                   l_pc, enqueued, polled, answered, replies, lastPoll,
                   stop_seen, unparsed, sessVars, codecVars, lifeVars, ctorVars, lexVars, refVars>>

\* shutdown_request_impl: m_should_stop = true
StopAfterShutdown_Toggle(stop) == ~stop

StopAfterShutdown(stop) == TRUE

ShutdownRequest ==
    /\ kernel_thread = "running" /\ k_pc = "idle"
    /\ m_should_stop' = StopAfterShutdown(m_should_stop)
    /\ cycle' = "broken"
    /\ UNCHANGED <<m_message_queue, m_message_mutex, m_current_callback, kernel_thread,
                   joined, freed, k_pc, l_pc, enqueued, polled, answered, replies,
                   lastPoll, lastSend, stop_seen, unparsed, sessVars, codecVars, lifeVars, ctorVars, lexVars, refVars>>

\* kernel_ptr->start() returns once the kernel was asked to shut down, and
\* the lambda of xeus_kernel_init ends
KernelThreadStop ==
    /\ kernel_thread = "running" /\ k_pc = "idle"
    /\ m_should_stop
    /\ kernel_thread' = "finished"
    /\ UNCHANGED <<m_message_queue, m_message_mutex, m_should_stop, m_current_callback,
                   joined, freed, k_pc, l_pc, enqueued, polled, answered, replies,
                   lastPoll, lastSend, stop_seen, cycle,
                   unparsed, sessVars, codecVars, lifeVars, ctorVars, lexVars, refVars>>

\* std::queue::pop
pop_KeepsFront(queue) == queue

pop(queue) == Tail(queue)

\* lean_interpreter::poll_message, run with the mutex held:
\* [msg: the string returned, queue: m_message_queue afterwards]
poll_message(queue) ==
    IF queue = <<>>
    THEN [msg |-> <<>>, queue |-> queue]
    ELSE [msg |-> Head(queue), queue |-> pop(queue)]

\* xeus_kernel_poll(handle, timeout_ms): poll_message, then a sleep of
\* timeout_ms when the message is empty
Poll(timeout_ms) ==
    /\ l_pc = "idle"
    /\ m_message_mutex = "free"
    /\ LET r == poll_message(m_message_queue)
       IN  /\ m_message_queue' = r.queue
           /\ polled' = IF r.msg = <<>> THEN polled ELSE Append(polled, r.msg)
           /\ lastPoll' = [made |-> TRUE, msg |-> r.msg,
                           wasEmpty |-> m_message_queue = <<>>,
                           slept |-> IF r.msg = <<>> THEN timeout_ms ELSE 0,
                           stopped |-> m_should_stop]
           /\ cycle' = IF r.msg # <<>> THEN NextInCycle("requested", "polled") ELSE "broken"
    /\ UNCHANGED <<m_message_mutex, m_should_stop, m_current_callback, kernel_thread,
                   joined, freed, k_pc, l_pc, enqueued, answered, replies, lastSend,
                   stop_seen, unparsed, sessVars, codecVars, lifeVars, ctorVars, lexVars, refVars>>

\* the reply a send call hands to the callback
ReplyOf(kind, text) ==
    IF kind = "result" THEN SuccessReply ELSE ErrorReply(dump2(text), "LeanError", 0)

\* send_result / send_error up to the call of the callback: the text is
\* parsed (send_error leaves through its catch block when that fails),
\* the output is published, and if (m_current_callback) the callback is
\* called.  No lock is taken.
SendCall(kind, text) ==
    LET thrown == kind = "error" /\ ~parses(text)
        calls == ~thrown /\ m_current_callback # 0
    IN  /\ l_pc = "idle"
        /\ answered' = answered + 1
        /\ replies' = IF calls
                      THEN Append(replies, [cb |-> m_current_callback,
                                            reply |-> ReplyOf(kind, text)])
                      ELSE replies
        /\ l_pc' = IF calls THEN kind \o "_clear" ELSE "idle"
        /\ lastSend' = [made |-> TRUE, done |-> ~calls, kind |-> kind,
                        isJson |-> parses(text), pending |-> m_current_callback,
                        invoked |-> IF calls THEN 1 ELSE 0, slot |-> m_current_callback,
                        completed |-> lastSend.completed,
                        afterCompleted |-> lastSend.completed]
        /\ unparsed' = (unparsed \/ thrown)
        /\ cycle' = IF kind = "result" /\ calls /\ k_pc = "idle"
                    THEN NextInCycle("polled", "replying") ELSE "broken"
        /\ UNCHANGED <<m_message_queue, m_message_mutex, m_should_stop, m_current_callback,
                       kernel_thread, joined, freed, k_pc, enqueued, polled, lastPoll,
                       stop_seen, sessVars, codecVars, lifeVars, ctorVars, lexVars, refVars>>

\* the Lean thread sends one result or error for each message it polled
SendInvoke(kind, text) == answered < Len(polled) /\ SendCall(kind, text)

\* m_current_callback = nullptr
SlotAfterReply_Kept(cb) == cb

SlotAfterReply(cb) == 0

SendClear(kind) ==
    /\ l_pc = kind \o "_clear"
    /\ m_current_callback' = SlotAfterReply(m_current_callback)
    /\ l_pc' = "idle"
    /\ lastSend' = [lastSend EXCEPT !.done = TRUE, !.slot = m_current_callback',
                                    !.completed = TRUE]
    /\ cycle' = IF k_pc = "idle" THEN NextInCycle("replying", "between") ELSE "broken"
    /\ UNCHANGED <<m_message_queue, m_message_mutex, m_should_stop, kernel_thread,
                   joined, freed, k_pc, enqueued, polled, answered, replies, lastPoll,
                   stop_seen, unparsed, sessVars, codecVars, lifeVars, ctorVars, lexVars, refVars>>

\* xeus_kernel_send_result
SendResultInvoke(text) == SendInvoke("result", text)
SendResultClear == SendClear("result")
\* xeus_kernel_send_error
SendErrorInvoke(text) == SendInvoke("error", text)
SendErrorClear == SendClear("error")

\* xeus_kernel_should_stop
ShouldStop ==
    /\ l_pc = "idle"
    /\ stop_seen' = m_should_stop
    /\ UNCHANGED <<m_message_queue, m_message_mutex, m_should_stop, m_current_callback,
                   kernel_thread, joined, freed, k_pc, l_pc, enqueued, polled, answered,
                   replies, lastPoll, lastSend, cycle,
                   unparsed, sessVars, codecVars, lifeVars, ctorVars, lexVars, refVars>>

\* std::thread::join returns once the thread has finished
JoinReturns_NoWait(thread) == TRUE

JoinReturns(thread) == thread = "finished"

\* finalize_kernel_state is entered once Lean holds the handle no longer
FinalizeEnter ==
    /\ l_pc = "idle"
    /\ l_pc' = "finalize_join"
    /\ cycle' = "broken"
    /\ UNCHANGED <<m_message_queue, m_message_mutex, m_should_stop, m_current_callback,
                   kernel_thread, joined, freed, k_pc, enqueued, polled, answered,
                   replies, lastPoll, lastSend, stop_seen,
                   unparsed, sessVars, codecVars, lifeVars, ctorVars, lexVars, refVars>>

\* if (state->kernel_thread.joinable()) state->kernel_thread.join();
FinalizeJoin ==
    /\ l_pc = "finalize_join"
    /\ joined \/ JoinReturns(kernel_thread)
    /\ joined' = TRUE
    /\ l_pc' = "finalize_delete"
    /\ UNCHANGED <<m_message_queue, m_message_mutex, m_should_stop, m_current_callback,
                   kernel_thread, freed, k_pc, enqueued, polled, answered, replies,
                   lastPoll, lastSend, stop_seen, cycle,
                   unparsed, sessVars, codecVars, lifeVars, ctorVars, lexVars, refVars>>

\* delete state;
FinalizeDelete ==
    /\ l_pc = "finalize_delete"
    /\ freed' = TRUE
    /\ l_pc' = "finalized"
    /\ UNCHANGED <<m_message_queue, m_message_mutex, m_should_stop, m_current_callback,
                   kernel_thread, joined, k_pc, enqueued, polled, answered, replies,
                   lastPoll, lastSend, stop_seen, cycle,
                   unparsed, sessVars, codecVars, lifeVars, ctorVars, lexVars, refVars>>

WorkInit ==
    /\ WorkIdle
    /\ LexIdle
    /\ RefIdle
    /\ SessInit
    /\ CodecIdle
    /\ LifeIdle
    /\ CtorIdle

WorkNext ==
    \/ \E code \in Codes : ExecuteRequestEnqueue(code)
    \/ ExecuteRequestStore
    \/ ShutdownRequest
    \/ KernelThreadStop
    \/ \E timeout_ms \in Timeouts : Poll(timeout_ms)
    \/ \E text \in Payloads : SendResultInvoke(text)
    \/ SendResultClear
    \/ \E text \in Payloads : SendErrorInvoke(text)
    \/ SendErrorClear
    \/ ShouldStop
    \/ FinalizeEnter
    \/ FinalizeJoin
    \/ FinalizeDelete

SpecWork == WorkInit /\ [][WorkNext]_vars

\* SpecWork with the scheduling the threads have: a handler that has begun
\* runs to its end, the kernel thread ends once it was asked to stop, a
\* join that can return does, and the delete after it runs.  Whether the
\* front end ever sends a request is left open.
SpecWorkFair ==
    /\ SpecWork
    /\ WF_vars(ExecuteRequestStore)
    /\ WF_vars(SendResultClear)
    /\ WF_vars(SendErrorClear)
    /\ WF_vars(KernelThreadStop)
    /\ WF_vars(FinalizeJoin)
    /\ WF_vars(FinalizeDelete)

(***************************************************************************)
(* SpecSends: the worker-thread interpreter with a Lean thread that calls  *)
(* xeus_kernel_send_result and xeus_kernel_send_error whenever it likes,   *)
(* also twice for one request and with nothing polled.                     *)
(***************************************************************************)
SendResultAnyTime(text) == answered < MaxSends /\ SendCall("result", text)
SendErrorAnyTime(text) == answered < MaxSends /\ SendCall("error", text)

SendsNext ==
    \/ \E code \in Codes : ExecuteRequestEnqueue(code)
    \/ ExecuteRequestStore
    \/ \E timeout_ms \in Timeouts : Poll(timeout_ms)
    \/ \E text \in Payloads : SendResultAnyTime(text)
    \/ SendResultClear
    \/ \E text \in Payloads : SendErrorAnyTime(text)
    \/ SendErrorClear

SpecSends == WorkInit /\ [][SendsNext]_vars

(***************************************************************************)
(* SpecScan: LeanRepl::is_complete applied to a text.                      *)
(***************************************************************************)
\* the characters of the texts: the brackets, the double quote, the
\* backslash, the dash, the newline and the space, and the letters of "by"
ScanChars == {"(", ")", "{", "[", "\"", "\\", "-", "\n", " ", "b", "y", "."}
ScanTexts == SeqUpTo(ScanChars, MaxScanLen)

\* other texts: a definition without "by", an open parameter list, a
\* comment with an open parenthesis, a tactic proof, a word that holds "by"
ExampleComplete == <<"e", "x", "a", "m", "p", "l", "e", " ", ":", " ", "N", "a", "t", " ", ":", "=", " ", "1">>
ExampleOpenParen == <<"d", "e", "f", " ", "f", " ", "(", "x", " ", ":", " ", "N", "a", "t">>
ExampleComment == <<"-", "-", " ", "c", "o", "m", "m", "e", "n", "t", " ", "(", "o", "p", "e", "n">>
ExampleTactic == <<"e", "x", "a", "m", "p", "l", "e", " ", ":", " ", "T", "r", "u", "e", " ", ":", "=", " ", "b", "y", "\n", " ", " ", "t", "r", "i", "v", "i", "a", "l">>
ExampleWord == <<"d", "e", "f", " ", "b", "a", "b", "y", " ", ":", "=", " ", "1">>
\* one of each whitespace character
ExampleBlank == <<"\t", "\r", "x0B", "\f", " ", "\n">>
ScanExamples ==
    {ExampleComplete, ExampleOpenParen, ExampleComment, ExampleTactic, ExampleWord,
     ExampleBlank}

ScanInit ==
    /\ ic_code \in ScanTexts \cup ScanExamples
    /\ ic_status = ""
    /\ ei_code = <<>> /\ ei_call = NoIdentCall
    /\ linsp = NoInspect
    /\ SessInit
    /\ CodecIdle
    /\ LifeIdle
    /\ CtorIdle
    /\ WorkIdle
    /\ RefIdle

\* status = is_complete(code)
IsComplete ==
    /\ ic_status = ""
    /\ ic_status' = is_complete(ic_code)
    /\ UNCHANGED <<ic_code, ei_code, ei_call, linsp,
                   sessVars, codecVars, lifeVars, ctorVars, workVars, refVars>>

ScanNext == IsComplete

SpecScan == ScanInit /\ [][ScanNext]_vars

(***************************************************************************)
(* SpecIdent: LeanRepl::extract_identifier applied to a text and a cursor. *)
(***************************************************************************)
\* constituent characters (a letter, a digit, underscore, apostrophe, dot)
\* and two that are not (space, parenthesis)
IdentChars == {"a", "1", "_", "'", ".", " ", "("}
IdentTexts == SeqUpTo(IdentChars, MaxIdentLen)
\* cursor positions: inside the text, before its start and past its end
Cursors == (0 - 2)..(MaxIdentLen + 2)

IdentInit ==
    /\ ei_code \in IdentTexts
    /\ ei_call = NoIdentCall
    /\ ic_code = <<>> /\ ic_status = ""
    /\ linsp = NoInspect
    /\ SessInit
    /\ CodecIdle
    /\ LifeIdle
    /\ CtorIdle
    /\ WorkIdle
    /\ RefIdle

\* ident = extract_identifier(code, cursor_pos, start, end)
ExtractIdentifier(cursor_pos) ==
    /\ ~ei_call.called
    /\ LET r == extract_identifier(ei_code, cursor_pos)
       IN  ei_call' = [called |-> TRUE, cursor_pos |-> cursor_pos,
                       ident |-> r.ident, start |-> r.start, end |-> r.end]
    /\ UNCHANGED <<ei_code, ic_code, ic_status, linsp,
                   sessVars, codecVars, lifeVars, ctorVars, workVars, refVars>>

IdentNext == \E cursor_pos \in Cursors : ExtractIdentifier(cursor_pos)

SpecIdent == IdentInit /\ [][IdentNext]_vars

(***************************************************************************)
(* SpecInspect: the inspect, complete and is_complete requests of the      *)
(* in-process interpreter (src/src/xinterpreter.cpp) on a session whose    *)
(* current environment is any that execute can have left.  One request is  *)
(* followed from each such session.                                        *)
(***************************************************************************)
InspectTexts ==
    {<<>>, <<"d", "e">>, <<"N", "a", "t", ".", "a">>, <<"(", " ">>,
     <<" ", "b", "y">>, <<"x", "1">>, <<"n", "a">>}
InspectCursors == 0..2

\* responses of the engine to the "#check" command
InspectDocs ==
    {JDoc(e, n, m, JNoArr) :
        e \in {JAbsent, JStr("unknown constant")},
        n \in {JNoEnv, JInt(0)},
        m \in {JNoArr, JOtherA, JArr(<<>>), JArr(<<JStr("Nat : Type")>>),
               JArr(<<JStr("x : Nat"), JStr("2")>>), JArr(<<JAbsent>>),
               JArr(<<JOtherS>>)}}
InspectOutcomes == {CallFailed, NotJson} \cup {Document(d) : d \in InspectDocs}

InspectInit ==
    /\ m_current_env \in OptEnv
    /\ last = NoCall
    /\ lastOkEnv = m_current_env
    /\ LexIdle
    /\ CodecIdle
    /\ LifeIdle
    /\ CtorIdle
    /\ WorkIdle
    /\ RefIdle

\* interpreter::inspect_request_impl: info = m_repl->inspect(code, cursor_pos),
\* create_inspect_reply(false) when info is empty, else (true, data, data)
InspectRequest(code, cursor_pos, outcome) ==
    LET r == inspect(code, cursor_pos, m_current_env, outcome)
    IN  /\ linsp.op = ""
        /\ m_current_env' = r.cur
        /\ linsp' = [NoInspect EXCEPT
                        !.op = "inspect", !.code = code, !.cursor_pos = cursor_pos,
                        !.before = m_current_env, !.sent = r.sent, !.cmd = r.cmd,
                        !.outcome = outcome, !.ident = r.ident, !.info = r.info,
                        !.escaped = r.escaped, !.found = (r.info # "")]
        /\ UNCHANGED <<last, lastOkEnv, ic_code, ic_status, ei_code, ei_call,
                       codecVars, lifeVars, ctorVars, workVars, refVars>>

\* interpreter::complete_request_impl: m_repl->complete(code, cursor_pos)
CompleteRequest(code, cursor_pos) ==
    LET r == complete(code, cursor_pos)
    IN  /\ linsp.op = ""
        /\ linsp' = [NoInspect EXCEPT
                        !.op = "complete", !.code = code, !.cursor_pos = cursor_pos,
                        !.before = m_current_env, !.matches = r.matches,
                        !.cursor_start = r.cursor_start, !.cursor_end = r.cursor_end]
        /\ UNCHANGED <<sessVars, ic_code, ic_status, ei_code, ei_call,
                       codecVars, lifeVars, ctorVars, workVars, refVars>>

\* interpreter::is_complete_request_impl: m_repl->is_complete(code)
IsCompleteRequest(code) ==
    /\ linsp.op = ""
    /\ linsp' = [NoInspect EXCEPT
                    !.op = "is_complete", !.code = code, !.before = m_current_env,
                    !.status = is_complete(code)]
    /\ UNCHANGED <<sessVars, ic_code, ic_status, ei_code, ei_call,
                   codecVars, lifeVars, ctorVars, workVars, refVars>>

InspectNext ==
    \/ \E code \in InspectTexts, cursor_pos \in InspectCursors, outcome \in InspectOutcomes :
          InspectRequest(code, cursor_pos, outcome)
    \/ \E code \in InspectTexts, cursor_pos \in InspectCursors :
          CompleteRequest(code, cursor_pos)
    \/ \E code \in InspectTexts : IsCompleteRequest(code)

SpecInspect == InspectInit /\ [][InspectNext]_vars

(***************************************************************************)
(* SpecRefs: the reference count of the native handle of one session, in   *)
(* the in-process deployment (LeanRepl, src/src/lean_repl.cpp) and in the  *)
(* WASM deployment (src/src/xinterpreter_wasm.cpp).  r_handle.rc is the     *)
(* count of the handle object, 0 once it is freed; incs counts the         *)
(* lean_inc made before engine calls, consumed the references engine calls *)
(* took, drops the references given up at teardown.                        *)
(***************************************************************************)
\* lean_inc(o), lean_dec(o) on the count of o
lean_inc(rc) == rc + 1
lean_dec(rc) == rc - 1

\* a function declared with a lean_obj_arg parameter owns the reference it
\* is given and has released it when it returns
ConsumedBy(rc) == rc - 1

\* what a use of a freed object can do
FreedUseOutcomes == {"crashed", "corrupted"}

\* the engine calls a session makes: execute and inspect, on a code, and
\* whether the IO result is ok
RefOps == {"execute", "inspect"}
RefCall(op, code, io_ok) == [op |-> op, code |-> code, io_ok |-> io_ok]

\* the handle as the constructor leaves it: the IO result of lean_repl_init
\* (lean_wasm_repl_create_state) holds the only reference; lean_inc for the
\* session; lean_dec of the result releases the result's reference
NewHandle == [NoHandle EXCEPT !.rc = lean_dec(lean_inc(1))]

\* the variables of the other specifications
RefOthers == <<sessVars, codecVars, lifeVars, ctorVars, workVars, lexVars>>

\* LeanRepl::LeanRepl from lean_repl_init on: the handle is kept, or the
\* constructor throws
RefConstruct(init_ok) ==
    /\ r_deploy = "native" /\ r_phase = "none"
    /\ IF init_ok
       THEN r_phase' = "ready" /\ r_handle' = NewHandle
       ELSE r_phase' = "failed" /\ UNCHANGED r_handle
    /\ UNCHANGED <<r_deploy, r_calls, RefOthers>>

\* LeanRepl::send_command, called by execute and by inspect:
\* lean_repl_execute_cmd(m_handle, lean_str, world) with no lean_inc
RefSendCommand(op, code, io_ok, ub) ==
    /\ r_deploy = "native" /\ r_phase = "ready"
    /\ Len(r_calls) < MaxCalls
    /\ IF r_handle.rc <= 0
       THEN r_phase' = ub /\ UNCHANGED <<r_handle, r_calls>>
       ELSE /\ r_handle' = [r_handle EXCEPT !.rc = ConsumedBy(@), !.consumed = @ + 1]
            /\ r_calls' = Append(r_calls, RefCall(op, code, io_ok))
            /\ UNCHANGED r_phase
    /\ UNCHANGED <<r_deploy, RefOthers>>

\* LeanRepl::~LeanRepl: lean_repl_free(m_handle, world), then
\* lean_dec(m_handle)
RefDestroy(ub) ==
    /\ r_deploy = "native" /\ r_phase = "ready"
    /\ IF r_handle.rc <= 0
       THEN r_phase' = ub /\ UNCHANGED r_handle
       ELSE LET freed_rc == ConsumedBy(r_handle.rc)
            IN  IF freed_rc <= 0
                THEN /\ r_phase' = ub
                     /\ r_handle' = [r_handle EXCEPT !.rc = freed_rc, !.drops = @ + 1]
                ELSE /\ r_phase' = "closed"
                     /\ r_handle' = [r_handle EXCEPT !.rc = lean_dec(freed_rc),
                                                     !.drops = @ + 2]
    /\ UNCHANGED <<r_deploy, r_calls, RefOthers>>

\* initialize_lean_runtime from lean_wasm_repl_create_state on, run by
\* configure_impl or by execute_request_impl while m_initialized is false
RefWasmInit(init_ok) ==
    /\ r_deploy = "wasm" /\ r_phase \in {"none", "closed"}
    /\ IF init_ok
       THEN r_phase' = "ready" /\ r_handle' = NewHandle
       ELSE UNCHANGED <<r_phase, r_handle>>
    /\ UNCHANGED <<r_deploy, r_calls, RefOthers>>

\* call_lean_repl: lean_inc(state_ref), then
\* lean_wasm_repl_execute(state_ref, code_obj, env_id, has_env)
RefWasmCall(code, io_ok) ==
    /\ r_deploy = "wasm" /\ r_phase = "ready"
    /\ Len(r_calls) < MaxCalls
    /\ r_handle' = [r_handle EXCEPT !.rc = ConsumedBy(lean_inc(@)),
                                    !.incs = @ + 1, !.consumed = @ + 1]
    /\ r_calls' = Append(r_calls, RefCall("execute", code, io_ok))
    /\ UNCHANGED <<r_deploy, r_phase, RefOthers>>

\* shutdown_request_impl and ~interpreter: lean_dec(m_repl_state);
\* m_repl_state = nullptr
RefWasmShutdown ==
    /\ r_deploy = "wasm" /\ r_phase = "ready"
    /\ r_handle' = [r_handle EXCEPT !.rc = lean_dec(@), !.drops = @ + 1]
    /\ r_phase' = "closed"
    /\ UNCHANGED <<r_deploy, r_calls, RefOthers>>

RefInit ==
    /\ r_deploy \in {"native", "wasm"}
    /\ r_phase = "none"
    /\ r_handle = NoHandle
    /\ r_calls = <<>>
    /\ SessInit
    /\ CodecIdle
    /\ LifeIdle
    /\ CtorIdle
    /\ WorkIdle
    /\ LexIdle

RefNext ==
    \/ \E init_ok \in BOOLEAN : RefConstruct(init_ok)
    \/ \E op \in RefOps, code \in Codes, io_ok \in BOOLEAN, ub \in FreedUseOutcomes :
          RefSendCommand(op, code, io_ok, ub)
    \/ \E ub \in FreedUseOutcomes : RefDestroy(ub)
    \/ \E init_ok \in BOOLEAN : RefWasmInit(init_ok)
    \/ \E code \in Codes, io_ok \in BOOLEAN : RefWasmCall(code, io_ok)
    \/ RefWasmShutdown

SpecRefs == RefInit /\ [][RefNext]_vars

(***************************************************************************)
(* Properties of LeanRepl::execute.                                        *)
(***************************************************************************)

\* C1: whenever execute returns Err, current_env() is the same after the
\* call as before it.
C1_ErrLeavesEnvUnchanged ==
    (last.called /\ ~last.res.ok) => m_current_env = last.before

\* C2: current_env() is None while no Ok response has carried an env, and
\* otherwise is the env id of the most recent Ok response that carried one
\* (so once set it never returns to None).
C2_EnvIsLastOkEnv == m_current_env = lastOkEnv

\* C3: the command execute sends has cmd = the given code and env = the
\* override when one is given, otherwise the session's current environment
\* when one is set, otherwise no env field.
C3_CommandSent ==
    last.called =>
        /\ last.cmd.cmd = last.code
        /\ last.env_id.has => last.cmd.env = last.env_id
        /\ (~last.env_id.has /\ last.before.has) => last.cmd.env = last.before
        /\ (~last.env_id.has /\ ~last.before.has) => ~last.cmd.env.has

\* an override is given while the session holds another environment
C3_Witness ==
    /\ last.called
    /\ last.env_id.has /\ last.before.has /\ last.env_id # last.before
    /\ last.cmd.env = last.env_id

\* a field of the document that does not have its wire-format type
HasOther(items) == \E i \in 1..Len(items) : items[i].t = "other"
WronglyTyped(doc) ==
    \/ doc.error.t = "other" \/ doc.env.t = "other"
    \/ doc.messages.t = "other" \/ doc.sorries.t = "other"
    \/ HasOther(doc.messages.v) \/ HasOther(doc.sorries.v)

\* a field that execute converts (error, env, a data, a goal) has a type the
\* conversion rejects
ConversionFault(doc) ==
    \/ doc.error.t = "other" \/ doc.env.t = "other"
    \/ HasOther(doc.messages.v) \/ HasOther(doc.sorries.v)

\* C4 as stated: for a failed engine call, text that is not JSON, or a
\* parsed document with wrongly typed fields, execute returns ok = false
\* with a description, and no fault escapes.
C4_EveryFailureGivesErr ==
    (c_res.called /\ (c_outcome.kind # "json" \/ WronglyTyped(c_outcome.doc))) =>
        (~c_res.res.ok /\ c_res.res.error # "" /\ ~c_res.escaped)

\* C4 amended: no fault ever escapes execute, and it returns ok = false with
\* a description when the engine call fails, the text is not JSON, or a field
\* it converts (error, env, a message's data, a sorry's goal) has the wrong
\* type; a messages or sorries field that is not an array is skipped and
\* gives no Err by itself.
C4_NoFaultEscapes ==
    c_res.called =>
        /\ ~c_res.escaped
        /\ (c_outcome.kind # "json" \/ ConversionFault(c_outcome.doc)) =>
              (~c_res.res.ok /\ c_res.res.error # "")

\* a document without error whose message data is not a string was given
C4_Witness ==
    /\ c_res.called /\ c_outcome.kind = "json"
    /\ ~contains(c_outcome.doc.error) /\ HasOther(c_outcome.doc.messages.v)
    /\ ~c_res.res.ok /\ ~c_res.escaped

\* the output the spec describes: each message's data and a newline, then
\* each sorry's goal prefixed "Goal: " and a newline
RECURSIVE JoinLines(_, _)
JoinLines(texts, prefix) ==
    IF texts = <<>> THEN ""
    ELSE JoinLines(SubSeq(texts, 1, Len(texts) - 1), prefix)
         \o prefix \o texts[Len(texts)].v \o "\n"

Texts(field) == SelectSeq(field.v, LAMBDA e : e.t = "string")

ExpectedOutput(doc) == JoinLines(Texts(doc.messages), "") \o JoinLines(Texts(doc.sorries), "Goal: ")

ExampleResponse == JDoc(JAbsent, JInt(1), JArr(<<JStr("2")>>), JNoArr)

\* C5 as stated: a parsed response with an error field gives Err carrying
\* its text, and every other parsed response gives Ok whose output is the
\* messages' data lines followed by the sorries' "Goal: " lines.
C5_ErrorElseOkOutput ==
    (c_res.called /\ c_outcome.kind = "json") =>
        LET doc == c_outcome.doc
        IN  /\ contains(doc.error) =>
                (~c_res.res.ok /\ (doc.error.t = "string" => c_res.res.error = doc.error.v))
            /\ ~contains(doc.error) =>
                (c_res.res.ok /\ c_res.res.output = ExpectedOutput(doc))

\* C5 amended: a parsed response with a string error field gives Err carrying
\* its text whatever its other fields; one without error gives Ok with the
\* described output provided env, if present, is a number and every data and
\* goal present is a string (entries without data or goal, and a messages or
\* sorries field that is not an array, add nothing); otherwise it gives Err.
\* A single message "2" gives "2\n".
C5_ErrorElseOkOutputTyped ==
    (c_res.called /\ c_outcome.kind = "json") =>
        LET doc == c_outcome.doc
        IN  /\ contains(doc.error) =>
                (~c_res.res.ok /\ (doc.error.t = "string" => c_res.res.error = doc.error.v))
            /\ (~contains(doc.error) /\ ~ConversionFault(doc)) =>
                (c_res.res.ok /\ c_res.res.output = ExpectedOutput(doc))
            /\ (~contains(doc.error) /\ ConversionFault(doc)) => ~c_res.res.ok
            /\ doc = ExampleResponse => c_res.res.output = "2\n"

\* two messages and a sorry were formatted
C5_Witness ==
    /\ c_res.called /\ c_res.res.ok
    /\ c_res.res.output = "2\nx : Nat\nGoal: |- True\n"

(***************************************************************************)
(* Properties of the interpreters' life cycle.                             *)
(***************************************************************************)

\* C6: after a shutdown request every execute request is answered with an
\* error (SessionClosed) for that request, and neither dereferences the
\* released session object nor reaches the engine (stated for an interpreter
\* whose configuration succeeded).
C6_ClosedSessionRefuses ==
    (configured = "ok" /\ lreq.made /\ lreq.afterShutdown) =>
        (lreq.reply.status = "error" /\ ~lreq.derefNull /\ ~lreq.forwarded)

C8_BootstrapAtMostOnce == configured = "ok" => (bootstraps <= 1 /\ created <= 1)

\* C10: if the bootstrap or the creation of the REPL handle fails during
\* configuration, configure reports the failure and no later execute on that
\* interpreter is forwarded to the engine.
C10_InitFailureIsFatal ==
    configured \notin {"no", "ok"} =>
        (configured = "threw" /\ ~lreq.forwarded)

(***************************************************************************)
(* Properties of concurrent session construction.                          *)
(***************************************************************************)
Bootstrapping(t) == pc[t] \in {"task_manager", "runtime_module", "set_flag"}
PastBootstrap(t) == pc[t] \in {"repl_init", "done", "threw", "deleted"}

\* C9: when sessions are constructed concurrently the runtime bootstrap is
\* executed by exactly one of them, its steps never run twice or interleaved,
\* and a constructor continues past it only once it has completed.
C9_BootstrapSerialized ==
    /\ bootstraps <= 1
    /\ Cardinality({t \in Threads : Bootstrapping(t)}) <= 1
    /\ \A t \in Threads : PastBootstrap(t) => lean_initialized

(***************************************************************************)
(* Properties of the worker-thread interpreter (SpecWork).                 *)
(***************************************************************************)
\* the callbacks invoked so far, in the order of their invocation
InvokedCallbacks == [j \in 1..Len(replies) |-> replies[j].cb]
\* the requests the Lean thread has answered so far, in the order answered
AnsweredRequests == [j \in 1..answered |-> polled[j][3]]

\* C11: whenever the Lean thread is between calls, the reply callbacks
\* invoked so far are exactly those of the requests it has answered, each
\* once and in the order the requests were enqueued, also when a request
\* was enqueued before the previous one was answered (every send_error
\* text being valid JSON).
C11_EachCallbackOnceInOrder ==
    (l_pc = "idle" /\ ~unparsed) => InvokedCallbacks = AnsweredRequests

\* C12: the kernel thread stores the callback and the Lean thread calls and
\* clears it only while holding m_message_mutex, so the two never overlap.
C12_SlotAccessUnderMutex ==
    /\ k_pc = "exec_store" => m_message_mutex = "kernel"
    /\ l_pc \in {"result_clear", "error_clear"} => m_message_mutex = "lean"
    /\ ~(k_pc = "exec_store" /\ l_pc \in {"result_clear", "error_clear"})

\* C13: a finished send_result or send_error call that found a callback
\* pending has invoked it exactly once and left m_current_callback empty,
\* whatever text it was given.
C13_SendCompletesPending ==
    (lastSend.made /\ lastSend.done /\ lastSend.pending # 0) =>
        (lastSend.invoked = 1 /\ lastSend.slot = 0)

\* C14: the messages poll_message has returned, followed by those still in
\* the queue, are the messages enqueued, in the order enqueued (none lost,
\* none twice); it returns the empty string exactly when the queue was
\* empty, and then leaves the queue as it was.
C14_PollIsFifo ==
    /\ enqueued = polled \o m_message_queue
    /\ lastPoll.made => ((lastPoll.msg = <<>>) <=> lastPoll.wasEmpty)
    /\ (lastPoll.made /\ lastPoll.msg # <<>>) => lastPoll.msg = polled[Len(polled)]

\* two messages that differ in code were polled in order, then the queue
\* was polled empty
C14_Witness ==
    /\ Len(polled) >= 2
    /\ polled[1][2] # polled[2][2]
    /\ polled[1][3] < polled[2][3]
    /\ lastPoll.made /\ lastPoll.wasEmpty /\ lastPoll.msg = <<>>

\* C15: while the history is a run of strictly sequential cycles of execute
\* request, poll, send_result, the k-th callback invoked is that of the
\* k-th request and got a success reply, and between cycles every request
\* has been replied to and m_current_callback is empty.
C15_SequentialCycles ==
    cycle # "broken" =>
        /\ \A j \in 1..Len(replies) : replies[j] = [cb |-> j, reply |-> SuccessReply]
        /\ cycle = "between" =>
              (m_current_callback = 0 /\ Len(replies) = Len(enqueued))

\* two complete cycles
C15_Witness ==
    /\ cycle = "between"
    /\ Len(enqueued) >= 2
    /\ Len(replies) = Len(enqueued)
    /\ answered = Len(enqueued)

\* C16: m_should_stop is false initially, is true after every shutdown
\* request, and no step takes it from true to false.
C16_StopFlagMonotone ==
    /\ ~m_should_stop
    /\ [][/\ m_should_stop => m_should_stop'
          /\ ShutdownRequest => m_should_stop']_vars

\* a shutdown request was made, the Lean thread read the flag and polled
\* afterwards, and the flag is still set
C16_Witness ==
    /\ m_should_stop
    /\ stop_seen
    /\ lastPoll.made /\ lastPoll.stopped
    /\ answered >= 1

\* C17: a poll made after the shutdown request set m_should_stop returns
\* the empty string without sleeping and without handing out a message.
C17_PollAfterStopReturnsEmpty ==
    (lastPoll.made /\ lastPoll.stopped) => (lastPoll.msg = <<>> /\ lastPoll.slept = 0)

\* C18: finalize_kernel_state deletes the KernelState only once the kernel
\* thread has been joined, so the thread is never running while the state
\* is freed.
C18_FreedOnlyAfterJoin ==
    /\ l_pc \in {"finalize_delete", "finalized"} => (joined /\ kernel_thread = "finished")
    /\ freed => (joined /\ kernel_thread = "finished")

\* the kernel thread handled requests, was shut down, and the state was freed
C18_Witness ==
    /\ freed
    /\ kernel_thread = "finished"
    /\ Len(enqueued) >= 1

(***************************************************************************)
(* Further properties of one LeanRepl session (Spec).                      *)
(***************************************************************************)
\* C19: after an execute that returned Err the session is still usable: the
\* command the next execute sends carries the environment the session held
\* before the failed call.
C19_ErrKeepsSessionUsable ==
    (last.called /\ ~last.res.ok) =>
        \A code \in Codes :
            BuildCmd(code, nullopt, m_current_env) = BuildCmd(code, nullopt, last.before)

\* the engine's response to the last call is a document whose env is e
Echoes(e) ==
    /\ last.outcome.kind = "json"
    /\ last.outcome.doc.env = JInt(e)

\* C20 as stated: execute(code, Some(e)) sends env = e, and if the response
\* echoes env = e the session's current environment is Some(e) afterwards.
C20_OverrideRoundTrip ==
    (last.called /\ last.env_id.has) =>
        /\ last.cmd.env = last.env_id
        /\ Echoes(last.env_id.val) => m_current_env = last.env_id

\* C20: execute(code, Some(e)) sends env = e, and if the response has no
\* error field and echoes env = e the session's current environment is
\* Some(e) afterwards.
C20_OverrideRoundTripNoError ==
    (last.called /\ last.env_id.has) =>
        /\ last.cmd.env = last.env_id
        /\ (Echoes(last.env_id.val) /\ ~contains(last.outcome.doc.error)) =>
              m_current_env = last.env_id

\* an override other than the session's environment is echoed back
C20_Witness ==
    /\ last.called
    /\ last.env_id.has /\ last.before.has /\ last.before # last.env_id
    /\ Echoes(last.env_id.val) /\ ~contains(last.outcome.doc.error)
    /\ last.cmd.env = last.env_id
    /\ m_current_env = last.env_id

(***************************************************************************)
(* Properties of the lexical scanners (SpecIdent, SpecScan).               *)
(***************************************************************************)
\* alphanumeric, underscore, apostrophe or dot
Constituent(c) == c \in {"a", "1", "_", "'", "."}
\* the cursor brought into [0, len]
Clamped(cursor, len) == IF cursor < 0 THEN 0 ELSE IF cursor > len THEN len ELSE cursor

\* C26: for every text and cursor, extract_identifier returns
\* 0 <= start <= c <= end <= len(text) for the clamped cursor c, the text
\* returned is text[start:end] and is made of constituent characters, and
\* text[start-1] and text[end], where they exist, are not constituent.
C26_IdentifierSpan ==
    ei_call.called =>
        LET c == Clamped(ei_call.cursor_pos, Len(ei_code))
        IN  /\ 0 <= ei_call.start /\ ei_call.start <= c
            /\ c <= ei_call.end /\ ei_call.end <= Len(ei_code)
            /\ ei_call.ident = [k \in 1..(ei_call.end - ei_call.start) |->
                                    ei_code[ei_call.start + k]]
            /\ \A k \in 1..Len(ei_call.ident) : Constituent(ei_call.ident[k])
            /\ ei_call.start > 0 => ~Constituent(ei_code[ei_call.start])
            /\ ei_call.end < Len(ei_code) => ~Constituent(ei_code[ei_call.end + 1])

\* a cursor inside an identifier that has a character before it and one after
C26_Witness ==
    /\ ei_call.called
    /\ ei_call.start > 0 /\ ei_call.end < Len(ei_code)
    /\ ei_call.start < ei_call.cursor_pos /\ ei_call.cursor_pos <= ei_call.end

\* the text is_complete scans, and the scanner's locals along it
Trimmed == TrimTrailing(ic_code)
Scanned == ScanStates(Trimmed)

\* C27: a double quote read outside string mode enters string mode exactly
\* when the scanner is not in line-comment mode.
C27_QuoteInCommentStartsNoString ==
    ic_status # "" =>
        \A i \in 1..Len(Trimmed) :
            (Trimmed[i] = "\"" /\ ~Scanned[i].in_string) =>
                (Scanned[i + 1].in_string <=> ~Scanned[i].in_comment)

\* the number of backslashes that end at element i of the text
RECURSIVE BackslashRun(_, _)
BackslashRun(text, i) ==
    IF i >= 1 /\ text[i] = "\\" THEN 1 + BackslashRun(text, i - 1) ELSE 0
\* the character at i is escaped: an odd number of backslashes precede it
EscapedAt(text, i) == BackslashRun(text, i - 1) % 2 = 1

\* C28: in string mode a double quote that is not escaped ends string mode
\* and changes nothing else, and every other character changes nothing.
C28_StringEndsAtUnescapedQuote ==
    ic_status # "" =>
        \A i \in 1..Len(Trimmed) :
            Scanned[i].in_string =>
                Scanned[i + 1] =
                    IF Trimmed[i] = "\"" /\ ~EscapedAt(Trimmed, i)
                    THEN [Scanned[i] EXCEPT !.in_string = FALSE]
                    ELSE Scanned[i]

\* C29: in line-comment mode outside a string a character other than the
\* newline changes neither the depth counters nor the modes, the newline
\* ends comment mode, and the text "--(" is complete.
C29_CommentIsIgnored ==
    ic_status # "" =>
        /\ \A i \in 1..Len(Trimmed) :
              (Scanned[i].in_comment /\ ~Scanned[i].in_string) =>
                  Scanned[i + 1] =
                      IF Trimmed[i] = "\n"
                      THEN [Scanned[i] EXCEPT !.in_comment = FALSE]
                      ELSE Scanned[i]
        /\ ic_code = <<"-", "-", "(">> => ic_status = "complete"

\* C30: is_complete returns "incomplete" whenever the scan ends with a
\* positive depth counter or inside a string ("(" and an unterminated
\* string are incomplete); a text of closing parentheses only, whose
\* counter ends negative, is complete.
C30_OpenAtEndIsIncomplete ==
    ic_status # "" =>
        LET end == Scanned[Len(Scanned)]
        IN  /\ (Trimmed # <<>> /\ (\/ end.open_parens > 0
                                   \/ end.open_braces > 0
                                   \/ end.open_brackets > 0
                                   \/ end.in_string)) => ic_status = "incomplete"
            /\ ic_code \in {<<"(">>, <<"\"", "b">>} => ic_status = "incomplete"
            /\ (ic_code # <<>> /\ \A k \in 1..Len(ic_code) : ic_code[k] = ")") =>
                  ic_status = "complete"

\* one counter ends negative, another positive
C30_Witness ==
    /\ ic_status = "incomplete"
    /\ Scanned[Len(Scanned)].open_parens < 0
    /\ Scanned[Len(Scanned)].open_braces > 0
    /\ ~Scanned[Len(Scanned)].in_string

(***************************************************************************)
(* Properties of the replies and of the inspection requests.               *)
(***************************************************************************)
\* C21: every error reply to an execute request has the category
\* "LeanError" and a traceback of exactly one entry.
C21_ErrorReplyShape ==
    (lreq.made /\ lreq.reply.status = "error") =>
        (lreq.reply.ename = "LeanError" /\ lreq.reply.traceback = 1)

\* the engine call failed, its answer was not JSON, or it reported an error
EngineFailure(outcome) == outcome.kind # "json" \/ contains(outcome.doc.error)

\* C22: when the engine call of inspect fails, answers with text that is
\* not JSON or reports an error, inspect returns the empty string, the
\* reply has found = false, and no exception leaves inspect.
C22_InspectFailureIsSilent ==
    (linsp.op = "inspect" /\ linsp.sent /\ EngineFailure(linsp.outcome)) =>
        (linsp.info = "" /\ ~linsp.found /\ ~linsp.escaped)

\* the messages of the response to the last inspect request
InspectMessages == linsp.outcome.doc.messages

\* C23: for a non-empty identifier inspect sends "#check " + identifier with
\* env the current environment (none when none is set), returns the data
\* text of the first message, and returns "No information available for: "
\* + identifier when the response has no messages.
C23_InspectCommandAndResult ==
    (linsp.op = "inspect" /\ linsp.ident # "") =>
        /\ linsp.sent
        /\ linsp.cmd = [cmd |-> "#check " \o linsp.ident, env |-> linsp.before]
        /\ (/\ linsp.outcome.kind = "json"
            /\ InspectMessages.t = "array"
            /\ InspectMessages.v # <<>>
            /\ InspectMessages.v[1].t = "string") => linsp.info = InspectMessages.v[1].v
        /\ (/\ linsp.outcome.kind = "json"
            /\ \/ InspectMessages.t = "absent"
               \/ InspectMessages.t = "array" /\ InspectMessages.v = <<>>) =>
              linsp.info = "No information available for: " \o linsp.ident

\* a session with an environment inspects a qualified name and the engine
\* answers with two messages
C23_Witness ==
    /\ linsp.op = "inspect"
    /\ linsp.ident = "Nat.a"
    /\ linsp.before.has /\ linsp.cmd.env = linsp.before
    /\ linsp.outcome.kind = "json"
    /\ InspectMessages.t = "array" /\ Len(InspectMessages.v) = 2
    /\ linsp.info = "x : Nat"

\* C24: when the identifier at the cursor is empty, inspect returns the
\* empty string, sends nothing to the engine, and the reply has found = false.
C24_EmptyIdentifierNoCall ==
    (linsp.op = "inspect" /\ Str(extract_identifier(linsp.code, linsp.cursor_pos).ident) = "") =>
        (linsp.info = "" /\ ~linsp.sent /\ ~linsp.found)

\* the cursor stands between two characters that are not constituent
C24_Witness ==
    /\ linsp.op = "inspect"
    /\ linsp.code = <<"(", " ">> /\ linsp.cursor_pos = 1
    /\ linsp.info = "" /\ ~linsp.sent

\* C25: inspect, complete and is_complete leave the session's current
\* environment as it was, whatever the engine answers; complete and
\* is_complete send nothing to the engine.
C25_InspectionLeavesEnv ==
    linsp.op # "" =>
        /\ m_current_env = linsp.before
        /\ linsp.op \in {"complete", "is_complete"} => ~linsp.sent

\* the response to the inspection command carries an env other than the
\* session's
C25_Witness ==
    /\ linsp.op = "inspect" /\ linsp.sent
    /\ linsp.outcome.kind = "json"
    /\ linsp.outcome.doc.env.t = "number"
    /\ linsp.before # Some(linsp.outcome.doc.env.v)
    /\ ~contains(linsp.outcome.doc.error)
    /\ linsp.info = "Nat : Type"
    /\ m_current_env = linsp.before

(***************************************************************************)
(* Properties of the second check of is_complete and of complete.          *)
(***************************************************************************)
\* the two characters "by" stand somewhere in the text
ContainsBy(text) == \E k \in 1..(Len(text) - 1) : <<text[k], text[k + 1]>> = <<"b", "y">>

\* the scan has ended with no positive counter and outside a string
ScanEndsClosed ==
    LET end == Scanned[Len(Scanned)]
    IN  /\ Trimmed # <<>>
        /\ end.open_parens <= 0 /\ end.open_braces <= 0 /\ end.open_brackets <= 0
        /\ ~end.in_string

CompletePrefix == extract_identifier(linsp.code, linsp.cursor_pos)

\* kw begins with the characters of prefix, letter case included
HasPrefix(kw, prefix) ==
    Len(prefix) <= Len(kw) /\ SubSeq(kw, 1, Len(prefix)) = prefix

\* the keywords that begin with prefix, in the order of the vocabulary
Candidates(prefix) == SelectSeq(keywords, LAMBDA kw : HasPrefix(kw, prefix))

\* C32: complete returns exactly the vocabulary entries that start with
\* the identifier extracted at the cursor, letter case included, in the
\* vocabulary's order, with the start and end of that identifier;
\* complete("de", 2) returns ["def"] with span [0, 2].
C32_CompleteFiltersVocabulary ==
    linsp.op = "complete" =>
        /\ linsp.matches = Candidates(CompletePrefix.ident)
        /\ linsp.cursor_start = CompletePrefix.start
        /\ linsp.cursor_end = CompletePrefix.end
        /\ (linsp.code = <<"d", "e">> /\ linsp.cursor_pos = 2) =>
              /\ linsp.matches = << <<"d", "e", "f">> >>
              /\ linsp.cursor_start = 0 /\ linsp.cursor_end = 2

\* the prefix "na" is completed to "namespace" and to no entry that
\* begins with "Na"
C32_Witness ==
    /\ linsp.op = "complete"
    /\ linsp.code = <<"n", "a">> /\ linsp.cursor_pos = 1
    /\ linsp.matches = << <<"n", "a", "m", "e", "s", "p", "a", "c", "e">> >>
    /\ linsp.cursor_start = 0 /\ linsp.cursor_end = 2

\* the whitespace characters
Whitespace == {" ", "\t", "\n", "x0B", "\f", "\r"}

\* C33: is_complete returns "incomplete" for the empty text and for every
\* text that consists only of whitespace.
C33_BlankIsIncomplete ==
    (ic_status # "" /\ \A k \in 1..Len(ic_code) : ic_code[k] \in Whitespace) =>
        ic_status = "incomplete"

\* a text of tabs, returns, feeds, a space and a newline has been classified
C33_Witness ==
    /\ ic_code = ExampleBlank
    /\ ic_status = "incomplete"

(***************************************************************************)
(* Properties of the handle's reference count.                             *)
(***************************************************************************)
\* C34: the references on the session's handle stay balanced: every
\* reference an engine call consumed is matched by an increment, the count
\* is positive while the session is ready, teardown drops the session's
\* reference exactly once and leaves the count at zero, and no freed
\* handle is used.
C34_HandleReferencesBalanced ==
    /\ r_handle.consumed = r_handle.incs
    /\ r_phase = "ready" => r_handle.rc > 0
    /\ r_phase = "closed" => (r_handle.drops = 1 /\ r_handle.rc = 0)
    /\ r_phase \notin FreedUseOutcomes

(***************************************************************************)
(* Properties of the execute requests of the two interpreters.             *)
(***************************************************************************)
\* C35: in the in-process and WASM deployments every execute request has
\* invoked its reply callback exactly once when execute_request_impl
\* returns, whatever the engine answered.
C35_ReplyCallbackInvoked ==
    lreq.made => (lreq.reply.status \in {"ok", "error"} /\ ~lreq.escaped)

\* C36: an engine response that is not valid JSON is reported as a failure
\* of the request, an error reply, in the in-process and in the WASM
\* execute path, never as a successful execution.
C36_NotJsonIsFailure ==
    (lreq.made /\ lreq.forwarded /\ lreq.outcome.kind = "not_json") =>
        lreq.reply.status = "error"

\* C37: in the WASM interpreter the first command sent to a REPL state
\* created after a shutdown carries no environment id.
C37_FreshStateStartsWithoutEnv ==
    (deploy = "wasm" /\ lreq.made /\ lreq.forwarded /\ lreq.fresh /\ lreq.afterShutdown) =>
        lreq.env < 0

\* C38: in the WASM interpreter m_initialized is true exactly when
\* m_repl_state is non-null, and no call of call_lean_repl made by
\* execute_request_impl takes the "REPL not initialized" branch.
C38_InitializedIffState ==
    (deploy = "wasm" /\ phase # "destroyed") =>
        /\ m_initialized <=> m_repl_state # 0
        /\ (lreq.made /\ lreq.called) => lreq.forwarded

\* after a shutdown an execute request has run the initialisation again
\* and its command has reached the engine
C38_Witness ==
    /\ deploy = "wasm" /\ phase = "running"
    /\ shutdowns > 0
    /\ lreq.made /\ lreq.fresh /\ lreq.called /\ lreq.forwarded
    /\ m_initialized /\ m_repl_state # 0

(***************************************************************************)
(* Properties of the worker-thread interpreter's callbacks and teardown.   *)
(***************************************************************************)
\* C39: no reply callback is invoked more than once, and a send_result or
\* send_error call that begins after a send call has completed a request,
\* with no execute request since, invokes no callback.
C39_CallbackAtMostOnce ==
    /\ \A i, j \in 1..Len(replies) : replies[i].cb = replies[j].cb => i = j
    /\ (lastSend.made /\ lastSend.afterCompleted) => lastSend.invoked = 0

\* a second send call has been made for a request that was answered, and
\* it found no callback
C39_Witness ==
    /\ lastSend.made /\ lastSend.done /\ lastSend.afterCompleted
    /\ lastSend.pending = 0 /\ lastSend.invoked = 0
    /\ Len(replies) = 1 /\ Len(enqueued) = 1
    /\ answered = 2

\* C40: finalize_kernel_state eventually completes from every reachable
\* state: once it is entered its join returns and the state is deleted,
\* whether or not a shutdown request was received.
C40_FinalizeCompletes == (l_pc = "finalize_join") ~> (l_pc = "finalized")

=============================================================================
